---------------------------- MODULE Spec2Model ----------------------------
(***************************************************************************)
(* Blackhole-Simulation: the geodesic ray integrator (BlackHole::trace     *)
(* and its helpers, src/src/physics/BlackHole.cpp), and the CPU renderer's *)
(* thread pool (src/src/Renderer.cpp).                                     *)
(*                                                                         *)
(* Numbers.  The program computes in IEEE doubles.  The model computes in  *)
(* fixed point: a real v is the integer round(v * SC), SC = 1000, so that  *)
(* every threshold of the code (0.001, 0.01, 0.02, 0.2, 0.5, 2.5*rs ...)   *)
(* is a value of the model.  Products and quotients are rounded to         *)
(* nearest, symmetric in sign, and are evaluated without exceeding the     *)
(* 32-bit integers of the model checker.  sin, atan2, asin and exp are     *)
(* computed by closed-form approximations (Bhaskara's sine, a quadratic    *)
(* arctangent, a range-reduced Taylor exponential) that keep the ranges    *)
(* and signs of the library functions.                                     *)
(*                                                                         *)
(* A local value that is used more than once is bound by                   *)
(* Val({e : x \in {d}}), "e where x = d", so that it is computed once.      *)
(***************************************************************************)
EXTENDS Integers, Sequences, FiniteSets, TLC

\* ------------------------------------------------------------------------
\* Fixed-point arithmetic
\* ------------------------------------------------------------------------

\* Scale of the fixed-point representation: 1.0 is SC.
SC == 10 * 10 * 10

\* The element of a one-element set.
Val(S) == CHOOSE v \in S : TRUE

Abs(a) == IF a < 0 THEN -a ELSE a

Sgn(a) == IF a < 0 THEN -1 ELSE IF a > 0 THEN 1 ELSE 0

Min(a, b) == IF a < b THEN a ELSE b

Max(a, b) == IF a > b THEN a ELSE b

\* <<q, r>> with a * b = q * c + r and 0 <= r < c, for a, b >= 0 and c > 0,
\* by long multiplication in base 16 (no intermediate exceeds 32 bits for
\* a, c < 2^26).
RECURSIVE MulDivNat(_, _, _)
MulDivNat(a, b, c) ==
  IF b = 0 THEN <<0, 0>>
  ELSE Val({ Val({ <<16 * h[1] + (t \div c), t % c>> :
                   t \in {16 * h[2] + (b % 16) * a} }) :
             h \in {MulDivNat(a, b \div 16, c)} })

\* round(a * b / c), half away from zero, sign-symmetric; c # 0.
MulDivAbs(aa, bb, cc) ==
  Val({ qr[1] + (IF 2 * qr[2] >= cc THEN 1 ELSE 0) :
        qr \in { IF Max(aa, bb) <= 32767
                   THEN <<(aa * bb) \div cc, (aa * bb) % cc>>
                   ELSE MulDivNat(Max(aa, bb), Min(aa, bb), cc) } })

MulDiv(a, b, c) ==
  Val({ Sgn(x) * Sgn(y) * Sgn(z) * MulDivAbs(Abs(x), Abs(y), Abs(z)) :
        x \in {a}, y \in {b}, z \in {c} })

\* a * b and a / b on fixed-point values.
MulFx(a, b) == MulDiv(a, b, SC)

DivFx(a, b) == MulDiv(a, SC, b)

\* floor(sqrt(n)) for an integer n >= 0 (Newton's iteration from above).
RECURSIVE SqrtIter(_, _)
SqrtIter(n, x) ==
  Val({ IF y >= x THEN x ELSE SqrtIter(n, y) : y \in {(x + n \div x) \div 2} })

ISqrt(n) ==
  Val({ IF m < 2 THEN m
        ELSE SqrtIter(m, IF m < 10000 THEN 100
                         ELSE IF m < 1000000 THEN 1000
                         ELSE IF m < 100000000 THEN 10000 ELSE 46341) :
        m \in {n} })

\* std::sqrt on a fixed-point value a >= 0.
SqrtFx(a) ==
  Val({ IF x < 2000000 THEN ISqrt(x * SC) ELSE 10 * ISqrt(x * 10) : x \in {a} })

\* pi (BlackHole.cpp:149 and <cmath>), and 2*pi.
PiFx == (314159 * SC + 50000) \div 100000

TwoPiFx == (628319 * SC + 50000) \div 100000

\* Bhaskara's approximation of sin on [0, pi]: 16t(pi-t) / (5pi^2 - 4t(pi-t)),
\* in [0, 1], 0 at 0 and pi, 1 at pi/2.
SinHalf(t) ==
  Val({ Min(SC, MulDiv(16 * p, SC, 5 * PiFx * PiFx - 4 * p)) : p \in {t * (PiFx - t)} })

\* std::sin: odd, 2*pi-periodic, values in [-1, 1].
SinFx(a) ==
  Val({ IF m <= PiFx THEN SinHalf(m) ELSE -SinHalf(Min(m - PiFx, PiFx)) :
        m \in {a % TwoPiFx} })

\* atan on [0, 1]: a*pi/4 + 0.273*a*(1-a).
AtanUnit(a) ==
  Val({ MulFx(t, PiFx \div 4) + MulFx((273 * SC) \div 1000, MulFx(t, SC - t)) :
        t \in {a} })

\* std::atan2(y, x) in (-pi, pi]; atan2(0, 0) = 0.
AtanFirst(ay, ax) ==
  IF ax = 0 /\ ay = 0 THEN 0
  ELSE IF ay <= ax THEN AtanUnit(DivFx(ay, ax))
  ELSE PiFx \div 2 - AtanUnit(DivFx(ax, ay))

Atan2Fx(y, x) ==
  Val({ Val({ IF b < 0 THEN -(IF a < 0 THEN PiFx - t0 ELSE t0)
              ELSE (IF a < 0 THEN PiFx - t0 ELSE t0) :
              t0 \in {AtanFirst(Abs(b), Abs(a))} }) :
        b \in {y}, a \in {x} })

\* std::asin(y) for |y| <= 1: atan2(y, sqrt(1 - y^2)).
AsinFx(y) == Val({ Atan2Fx(b, SqrtFx(Max(0, SC - MulFx(b, b)))) : b \in {y} })

\* exp(a) for a >= 0: Taylor's polynomial below 1/8, exp(a) = exp(a/2)^2 above.
RECURSIVE ExpPos(_)
ExpPos(a) ==
  IF a <= SC \div 8
    THEN SC + a + MulFx(a, a) \div 2 + MulFx(a, MulFx(a, a)) \div 6
    ELSE Val({ IF a % 2 = 1 THEN e + MulDiv(e, 1, SC) ELSE e :
               e \in { Val({ MulFx(h, h) : h \in {ExpPos(a \div 2)} }) } })

\* std::exp: exp(a) >= 1 for a >= 0 and 0 <= exp(a) <= 1 for a <= 0.
ExpFx(a) ==
  Val({ IF x >= 0 THEN ExpPos(x) ELSE Min(SC, DivFx(SC, ExpPos(-x))) : x \in {a} })

\* ------------------------------------------------------------------------
\* Vector3 (include/utils/Vector3.hpp)
\* ------------------------------------------------------------------------

Vector3(a, b, c) == [x |-> a, y |-> b, z |-> c]

Zero3 == Vector3(0, 0, 0)

VAdd(u, v) ==
  Val({ Vector3(a.x + b.x, a.y + b.y, a.z + b.z) : a \in {u}, b \in {v} })

VScale(u, s) ==
  Val({ Vector3(MulFx(a.x, k), MulFx(a.y, k), MulFx(a.z, k)) : a \in {u}, k \in {s} })

VDivScalar(u, s) ==
  Val({ Vector3(DivFx(a.x, k), DivFx(a.y, k), DivFx(a.z, k)) : a \in {u}, k \in {s} })

Dot(u, v) ==
  Val({ MulFx(a.x, b.x) + MulFx(a.y, b.y) + MulFx(a.z, b.z) : a \in {u}, b \in {v} })

Cross(u, v) ==
  Val({ Vector3(MulFx(a.y, b.z) - MulFx(a.z, b.y),
                MulFx(a.z, b.x) - MulFx(a.x, b.z),
                MulFx(a.x, b.y) - MulFx(a.y, b.x)) : a \in {u}, b \in {v} })

LengthSquared(u) ==
  Val({ MulFx(a.x, a.x) + MulFx(a.y, a.y) + MulFx(a.z, a.z) : a \in {u} })

Length(u) == SqrtFx(LengthSquared(u))

\* Variant of Normalized that answers the x axis for a vector of length zero.
NormalizedDefaultAxis(u) ==
  Val({ Val({ IF len > 0 THEN VDivScalar(a, len) ELSE Vector3(SC, 0, 0) : len \in {Length(a)} }) :
        a \in {u} })

Normalized(u) ==
  Val({ Val({ IF len > 0 THEN VDivScalar(a, len) ELSE Zero3 : len \in {Length(a)} }) :
        a \in {u} })

\* ------------------------------------------------------------------------
\* BlackHole (src/src/physics/BlackHole.cpp)
\* ------------------------------------------------------------------------

\* Variant of AccelComponent that ignores the angular momentum (h2 taken as 1).
AccelComponentNoMomentum(p, rs_, h2, r2, r) ==
  -DivFx(MulDiv(MulDiv(SC, p, r2), MulFx((3 * SC) \div 2, rs_), r2), r)

\* One component of pos * factor, factor = -1.5 * rs * h2 / (r2 * r2 * r).
\* The quotient is taken factor by factor, (h2 * p / r2) * (1.5 * rs) / r2 / r,
\* which is the same real number and stays within the integers of the model.
AccelComponent(p, rs_, h2, r2, r) ==
  -DivFx(MulDiv(MulDiv(h2, p, r2), MulFx((3 * SC) \div 2, rs_), r2), r)

\* BlackHole::acceleration
Acceleration(pos_, vel_, rs_) ==
  Val({ Val({ Vector3(AccelComponent(p.x, rs_, h2, r2, r),
                      AccelComponent(p.y, rs_, h2, r2, r),
                      AccelComponent(p.z, rs_, h2, r2, r)) :
              r \in {SqrtFx(r2)} }) :
        p \in {pos_}, r2 \in {LengthSquared(pos_)},
        h2 \in {LengthSquared(Cross(pos_, vel_))} })

\* The noise term of diskDensity: (spiral + rings) * 0.5 + 0.5.
DiskNoise(spiral, rings) == MulFx(spiral + rings, SC \div 2) + SC \div 2

\* The edge fade of diskDensity: "fade = 1.0", then the two edge tests in turn.
DiskFade(r, rs_) ==
  IF r > MulFx(rs_, 10 * SC)
    THEN DivFx(MulFx(rs_, 12 * SC) - r, MulFx(rs_, 2 * SC))
  ELSE IF r < MulFx(rs_, 3 * SC)
    THEN DivFx(r - MulFx(rs_, (5 * SC) \div 2), MulFx(rs_, SC \div 2))
  ELSE SC

\* The spiral and ring pattern of diskDensity at radius r and polar angle.
DiskPattern(r, angle) ==
  DiskNoise(SinFx(MulFx(angle, 3 * SC) + MulFx(r, SC \div 2)), SinFx(MulFx(r, 2 * SC)))

\* Variant of DiskDensity without the thin-disk test on |y|.
DiskDensityNoSlab(pos_, rs_) ==
  Val({ IF r < MulFx(rs_, (5 * SC) \div 2) \/ r > MulFx(rs_, 12 * SC) THEN 0
        ELSE MulFx(MulFx(DiskPattern(r, Atan2Fx(p.z, p.x)), DiskFade(r, rs_)),
                   ExpFx(-MulFx(Abs(p.y), 10 * SC))) :
        p \in {pos_}, r \in {Length(pos_)} })

\* BlackHole::diskDensity
DiskDensity(pos_, rs_) ==
  Val({ IF r < MulFx(rs_, (5 * SC) \div 2) \/ r > MulFx(rs_, 12 * SC) THEN 0
        ELSE IF Abs(p.y) > SC \div 5 THEN 0
        ELSE MulFx(MulFx(DiskPattern(r, Atan2Fx(p.z, p.x)), DiskFade(r, rs_)),
                   ExpFx(-MulFx(Abs(p.y), 10 * SC))) :
        p \in {pos_}, r \in {Length(pos_)} })

\* The Keplerian orbital speed of dopplerFactor, sqrt(rs / (2 r)) capped at 0.5
\* (r = 0 gives +inf before the cap, 0.5 after it).
OrbitalSpeed(pos_, rs_) ==
  Val({ IF r = 0 THEN SC \div 2 ELSE Min(SqrtFx(DivFx(rs_, 2 * r)), SC \div 2) :
        r \in {Length(pos_)} })

\* The orbital velocity of dopplerFactor: tangent to the orbit in the x-z plane.
OrbitalVelocity(pos_, rs_) ==
  Val({ VScale(Vector3(radial_xz.z, 0, -radial_xz.x), OrbitalSpeed(pos_, rs_)) :
        radial_xz \in {Normalized(Vector3(pos_.x, 0, pos_.z))} })

\* The component of the orbital velocity toward the observer.
BetaParallel(pos_, rayDir, rs_) == -Dot(OrbitalVelocity(pos_, rs_), rayDir)

\* The Lorentz factor 1 / sqrt(1 - beta^2).
Gamma(beta) == DivFx(SC, SqrtFx(SC - MulFx(beta, beta)))

\* Variant of DopplerFactor with the sign of beta_parallel reversed.
DopplerFactorReversed(pos_, rayDir, rs_) ==
  DivFx(SC, MulFx(Gamma(OrbitalSpeed(pos_, rs_)), SC + BetaParallel(pos_, rayDir, rs_)))

\* BlackHole::dopplerFactor
DopplerFactor(pos_, rayDir, rs_) ==
  DivFx(SC, MulFx(Gamma(OrbitalSpeed(pos_, rs_)), SC - BetaParallel(pos_, rayDir, rs_)))

\* The palette of diskColor: hot, mid, cold, doppler_bright, doppler_dim.
Palette(colorMode) ==
  LET c(a, b, d) == Vector3((a * SC) \div 100, (b * SC) \div 100, (d * SC) \div 100)
  IN  IF colorMode = 0
        THEN [hot |-> c(70, 85, 100), mid |-> c(75, 85, 100), cold |-> c(50, 60, 80),
              bright |-> c(85, 92, 100), dim |-> c(50, 60, 80)]
      ELSE IF colorMode = 1
        THEN [hot |-> c(100, 90, 70), mid |-> c(100, 75, 50), cold |-> c(90, 60, 40),
              bright |-> c(100, 95, 85), dim |-> c(80, 50, 30)]
      ELSE [hot |-> c(100, 85, 75), mid |-> c(100, 60, 50), cold |-> c(85, 40, 30),
            bright |-> c(100, 90, 85), dim |-> c(70, 30, 20)]

\* The thermal blend of diskColor between hot, mid and cold at t in [0, 1].
BaseColor(pal, t) ==
  IF t < SC \div 2
    THEN VAdd(VScale(pal.hot, SC - 2 * t), VScale(pal.mid, 2 * t))
    ELSE VAdd(VScale(pal.mid, SC - 2 * (t - SC \div 2)),
              VScale(pal.cold, 2 * (t - SC \div 2)))

\* The frequency shift of diskColor toward the bright or the dim anchor.
DopplerColor(pal, baseColor, delta) ==
  IF delta > SC
    THEN Val({ VAdd(VScale(baseColor, SC - shift), VScale(pal.bright, shift)) :
               shift \in {Min(2 * (delta - SC), (4 * SC) \div 10)} })
    ELSE Val({ VAdd(VScale(baseColor, SC - shift), VScale(pal.dim, shift)) :
               shift \in {Min(2 * (SC - delta), (3 * SC) \div 10)} })

\* BlackHole::diskColor
DiskColor(density, r, pos_, rayDir, colorMode, rs_) ==
  Val({ VScale(VScale(VScale(DopplerColor(pal, BaseColor(pal, Min(Max(t0, 0), SC)), delta),
                             density),
                      4 * SC),
               MulFx(delta, MulFx(delta, delta))) :
        pal \in {Palette(colorMode)},
        t0 \in {DivFx(r - MulFx(rs_, (5 * SC) \div 2), MulFx(rs_, (19 * SC) \div 2))},
        delta \in {DopplerFactor(pos_, rayDir, rs_)} })

\* The multipliers of the star hash (BlackHole.cpp:157).
HashMulU == 19349663

HashMulV == 83492791

\* (uint32_t)(u * 4000) * HashMulU + (uint32_t)(v * 4000) * HashMulV in 32-bit
\* unsigned arithmetic, as the pair <<high 16 bits, low 16 bits>>.
StarHash(iu, iv) ==
  Val({ <<(hi + lo \div 65536) % 65536, lo % 65536>> :
        lo \in {iu * (HashMulU % 65536) + iv * (HashMulV % 65536)},
        hi \in {iu * (HashMulU \div 65536) + iv * (HashMulV \div 65536)} })

\* hash % m for a modulus m <= 1000.
HashMod(hash, m) == ((hash[1] % m) * (65536 % m) + hash[2]) % m

\* Variant of StarColor with ten times as many stars: a star when
\* hash % 1000 < 20.
StarColorDense(hash) ==
  IF HashMod(hash, 1000) < 20
    THEN Val({ Vector3(b, b, b) : b \in {SC \div 2 + (HashMod(hash, 100) * SC) \div 200} })
    ELSE Zero3

\* The colour sampleBackground gives for a hash: a star when hash % 1000 < 2.
StarColor(hash) ==
  IF HashMod(hash, 1000) < 2
    THEN Val({ Vector3(b, b, b) : b \in {SC \div 2 + (HashMod(hash, 100) * SC) \div 200} })
    ELSE Zero3

\* Starfield: the number of sampleBackground calls made so far.
VARIABLE skyCalls

\* Variant of SampleBackground whose hash is seeded with the number of
\* earlier calls.
SampleBackgroundSeeded(dir) ==
  Val({ StarColor(StarHash((u * 4000) \div SC + skyCalls, (v * 4000) \div SC)) :
        u \in {SC \div 2 + DivFx(Atan2Fx(dir.z, dir.x), TwoPiFx)},
        v \in {SC \div 2 - DivFx(AsinFx(dir.y), PiFx)} })

\* BlackHole::sampleBackground
SampleBackground(dir) ==
  Val({ StarColor(StarHash((u * 4000) \div SC, (v * 4000) \div SC)) :
        u \in {SC \div 2 + DivFx(Atan2Fx(dir.z, dir.x), TwoPiFx)},
        v \in {SC \div 2 - DivFx(AsinFx(dir.y), PiFx)} })

\* ------------------------------------------------------------------------
\* State
\* ------------------------------------------------------------------------

VARIABLES
  sys,               \* which part of the program this behaviour runs
  mass, rs,          \* BlackHole::mass, BlackHole::rs
  origin, direction, \* the Ray of the current trace call
  stepSize, maxDist, \* the arguments of the current trace call
  pos, vel,          \* trace: position and velocity of the ray
  accumulatedColor,  \* trace: colour accumulated so far
  transmittance,     \* trace: fraction of light not yet absorbed
  totalDist,         \* trace: distance travelled
  tpc,               \* trace: "idle", "loop", "absorbed" (horizon return), "escaped"
  iterations,        \* history: loop bodies entered by the current call
  bgAdded,           \* history: the background term was added by the current call
  diskHit,           \* history: some iteration found density > 0.001
  tBefore,           \* history: transmittance before the latest iteration
  kop,               \* kernel: which function was applied ("idle", "density", "doppler")
  kpos, kdir,        \* kernel: the position and ray direction it was applied to
  knoise, kdensity,  \* kernel: the noise term and the value diskDensity returned
  kdelta,            \* kernel: the value dopplerFactor returned
  width, height,     \* Renderer::width, Renderer::height
  pixels,            \* Renderer::pixels: per index, the task that wrote it (NoTask if none)
  tasks,             \* ThreadPool::tasks: queue of chunk tasks (their first row)
  activeTasks,       \* ThreadPool::activeTasks
  stop,              \* ThreadPool::stop
  queueMutex,        \* ThreadPool::queueMutex: its owner, or NoThread
  conditionWaiters,  \* workers blocked in condition.wait
  finishedWaiters,   \* threads blocked in finishedCondition.wait
  wpc, wtask, wrow,  \* per worker: position, task being run, next row to render
  mpc, yLoop,        \* render thread: position, loop variable y of render
  frames,            \* history: render calls started
  enqueued, finished,\* history: tasks enqueued / completed in the current render call
  badWrite,          \* history: a write hit an index outside the buffer or already written
  queuedAtStop,      \* history: tasks in the queue when the destructor set stop
  skyDir, skyColor,  \* starfield: argument and result of the latest call
  skySeen,           \* starfield: <<direction, colour>> of every call so far
  skyRepeat,         \* starfield: the latest call repeated an earlier direction
  cell,              \* starfield: <<(uint32_t)(u * 4000), (uint32_t)(v * 4000)>> of a direction
  cellHash,          \* starfield: the hash of that cell, once computed
  cellColor,         \* starfield: the colour of that cell, once computed
  cellDone,          \* starfield: hash and colour have been computed
  repeats,           \* trace: how many times the call has been made again
  firstResult,       \* trace: <<colour, transmittance, iterations>> of the first call
  running,           \* Application::running
  isRecording,       \* Application::isRecording
  isFullscreen,      \* Application::isFullscreen
  esym, ecmd,        \* the event handled last: its key (or "SDL_QUIT") and the Command modifier
  eshift,            \* the Shift modifier of that event
  wasRecording,      \* history: isRecording when that event arrived
  appEvents,         \* history: events handled so far
  currentIndex,      \* ResolutionManager::currentIndex
  renderWidth,       \* Application::renderWidth
  renderHeight,      \* Application::renderHeight
  textureSize,       \* <<width, height>> the render targets were created with last
  startSize,         \* history: <<renderWidth, renderHeight>> when the recording began
  videoRecorder,     \* the VideoRecorder object: a record of its members
  files,             \* the paths at which a file exists
  rop, rret,         \* the latest VideoRecorder call ("none": none in the latest event) and its result
  rargs,             \* history: the arguments of that call
  rprev, fprev,      \* history: the recorder and the files before that call
  muxResult,         \* history: "none", "ok" or "failed": muxAudioWithVideo in that call
  rcalls,            \* history: VideoRecorder calls made so far
  mop, marg,         \* history: the latest ResolutionManager call and its argument
  mprev,             \* history: currentIndex before that call
  mop2, mprev2,      \* history: the call before it, and currentIndex before that one
  nextRun, runStart  \* history: next() calls in a row (up to NUM_PRESETS), currentIndex before them

traceVars == <<origin, direction, stepSize, maxDist, pos, vel, accumulatedColor,
               transmittance, totalDist, tpc, iterations, bgAdded, diskHit, tBefore>>

holeVars == <<mass, rs>>

cellVars == <<cell, cellHash, cellColor, cellDone>>

skyVars == <<skyCalls, skyDir, skyColor, skySeen, skyRepeat, cellVars>>

repeatVars == <<repeats, firstResult>>

recVars == <<videoRecorder, files, rop, rret, rargs, rprev, fprev, muxResult, rcalls>>

keyVars == <<running, isRecording, isFullscreen, esym, ecmd, eshift, wasRecording, appEvents>>

sizeVars == <<renderWidth, renderHeight, textureSize, startSize>>

eventVars == <<keyVars, currentIndex, sizeVars>>

managerVars == <<mop, marg, mprev, mop2, mprev2, nextRun, runStart>>

appVars == <<eventVars, recVars, managerVars>>

kernelVars == <<kop, kpos, kdir, knoise, kdensity, kdelta>>

poolVars == <<width, height, pixels, tasks, activeTasks, stop, queueMutex, conditionWaiters,
              finishedWaiters, wpc, wtask, wrow, mpc, yLoop, frames, enqueued, finished,
              badWrite, queuedAtStop>>

\* ------------------------------------------------------------------------
\* BlackHole::trace as a state machine: one step per loop iteration
\* ------------------------------------------------------------------------

\* Ray::Ray normalises the direction it is given.
Ray(o, d) == [origin |-> o, direction |-> Normalized(d)]

\* Thresholds and clamps of trace.
MinTransmittance == SC \div 100

DensityThreshold == SC \div 1000

MinStep == (2 * SC) \div 100

MaxStep == SC \div 2

\* Variant of LoopCond that also runs the body at totalDist = maxDist.
LoopCondInclusive == totalDist <= maxDist /\ transmittance > MinTransmittance

\* The loop condition of trace.
LoopCond == totalDist < maxDist /\ transmittance > MinTransmittance

\* Variant of InsideHorizon that tests against rs / 10 instead of rs.
InsideHorizonShrunk(p) == LengthSquared(p) < MulFx(rs \div 10, rs \div 10)

\* The event-horizon test of trace.
InsideHorizon(p) == LengthSquared(p) < MulFx(rs, rs)

\* The step length used by Beer's law in trace ("double dt = stepSize").
BeerStep(ss, dtAdaptive) == ss

\* Variant of AdaptiveStep without the two clamps.
AdaptiveStepUnclamped(ss, r) == MulFx(ss, DivFx(r, 2 * rs + SC \div 10))

\* The adaptive step of trace, clamped to [MinStep, MaxStep].
AdaptiveStep(ss, r) ==
  Val({ IF dt < MinStep THEN MinStep ELSE IF dt > MaxStep THEN MaxStep ELSE dt :
        dt \in {MulFx(ss, DivFx(r, 2 * rs + SC \div 10))} })

\* dt * 0.5
Half(dt) == MulFx(dt, SC \div 2)

\* The weighted sum (k1 + 2 k2 + 2 k3 + k4) * (dt / 6).
RKSum(k1, k2, k3, k4, dt) ==
  Val({ Vector3(MulDiv(u.x, dt, 6 * SC), MulDiv(u.y, dt, 6 * SC), MulDiv(u.z, dt, 6 * SC)) :
        u \in {VAdd(VAdd(k1, VScale(k2, 2 * SC)), VAdd(VScale(k3, 2 * SC), k4))} })

\* One classical Runge-Kutta step of trace: <<next_pos, next_vel>> before
\* the renormalisation.
RK4(p, v, dt) ==
  Val({ Val({ Val({ Val({ <<VAdd(p, RKSum(k1_p, k2_p, k3_p, k4_p, dt)),
                            VAdd(v, RKSum(k1_v, k2_v, k3_v, k4_v, dt))>> :
                          k4_v \in {Acceleration(VAdd(p, VScale(k3_p, dt)),
                                                 VAdd(v, VScale(k3_v, dt)), rs)},
                          k4_p \in {VAdd(v, VScale(k3_v, dt))} }) :
                    k3_v \in {Acceleration(VAdd(p, VScale(k2_p, Half(dt))),
                                           VAdd(v, VScale(k2_v, Half(dt))), rs)},
                    k3_p \in {VAdd(v, VScale(k2_v, Half(dt)))} }) :
              k2_v \in {Acceleration(VAdd(p, VScale(k1_p, Half(dt))),
                                     VAdd(v, VScale(k1_v, Half(dt))), rs)},
              k2_p \in {VAdd(v, VScale(k1_v, Half(dt)))} }) :
        k1_v \in {Acceleration(p, v, rs)}, k1_p \in {v} })

\* The call: trace(ray, stepSize, maxDist) initialises its locals.
TraceBegin(ray, ss, md) ==
  /\ sys = "trace"
  /\ tpc = "idle"
  /\ origin' = ray.origin
  /\ direction' = ray.direction
  /\ stepSize' = ss
  /\ maxDist' = md
  /\ pos' = ray.origin
  /\ vel' = ray.direction
  /\ accumulatedColor' = Zero3
  /\ transmittance' = SC
  /\ totalDist' = 0
  /\ tpc' = "loop"
  /\ iterations' = 0
  /\ bgAdded' = FALSE
  /\ diskHit' = FALSE
  /\ tBefore' = SC
  /\ UNCHANGED <<sys, holeVars, skyVars, repeatVars, appVars, kernelVars, poolVars>>

\* The loop body returns at the event horizon: "return accumulatedColor".
TraceAbsorb ==
  /\ sys = "trace"
  /\ tpc = "loop"
  /\ LoopCond
  /\ InsideHorizon(pos)
  /\ tpc' = "absorbed"
  /\ iterations' = iterations + 1
  /\ UNCHANGED <<sys, holeVars, skyVars, repeatVars, appVars, kernelVars, poolVars, origin, direction, stepSize, maxDist, pos, vel,
                 accumulatedColor, transmittance, totalDist, bgAdded, diskHit, tBefore>>

\* The colour one disk sample adds: emission * transmittance * (1 - stepTransmittance).
DiskEmission(density, p, v, tr, stepTransmittance) ==
  VScale(VScale(DiskColor(density, SqrtFx(LengthSquared(p)), p, v, 0, rs), tr),
         SC - stepTransmittance)

\* Variant of StepTransmittance that uses the first-order expansion
\* 1 - absorption * dt of the exponential.
StepTransmittanceLinear(density, ss, dtAdaptive) ==
  SC - MulFx(MulFx(density, SC \div 2), BeerStep(ss, dtAdaptive))

\* The Beer's-law factor of one disk sample: exp(-absorption * dt), absorption
\* = density * 0.5.
StepTransmittance(density, ss, dtAdaptive) ==
  ExpFx(-MulFx(MulFx(density, SC \div 2), BeerStep(ss, dtAdaptive)))

\* One full loop iteration: disk sampling, adaptive step, RK4, renormalise.
TraceIter ==
  /\ sys = "trace"
  /\ tpc = "loop"
  /\ LoopCond
  /\ ~InsideHorizon(pos)
  /\ \E density \in {DiskDensity(pos, rs)},
        dtAdaptive \in {AdaptiveStep(stepSize, SqrtFx(LengthSquared(pos)))} :
       \E stepTransmittance \in {StepTransmittance(density, stepSize, dtAdaptive)},
          next \in {RK4(pos, vel, dtAdaptive)} :
         /\ accumulatedColor' =
              IF density > DensityThreshold
                THEN VAdd(accumulatedColor,
                          DiskEmission(density, pos, vel, transmittance, stepTransmittance))
                ELSE accumulatedColor
         /\ transmittance' =
              IF density > DensityThreshold
                THEN MulFx(transmittance, stepTransmittance)
                ELSE transmittance
         /\ diskHit' = (diskHit \/ density > DensityThreshold)
         /\ pos' = next[1]
         /\ vel' = Normalized(next[2])
         /\ totalDist' = totalDist + dtAdaptive
  /\ tBefore' = transmittance
  /\ iterations' = iterations + 1
  /\ UNCHANGED <<sys, holeVars, skyVars, repeatVars, appVars, kernelVars, poolVars, origin, direction, stepSize, maxDist, tpc, bgAdded>>

\* The loop condition fails: add the background and return.
TraceEscape ==
  /\ sys = "trace"
  /\ tpc = "loop"
  /\ ~LoopCond
  /\ accumulatedColor' =
       VAdd(accumulatedColor, VScale(SampleBackground(vel), transmittance))
  /\ bgAdded' = TRUE
  /\ tpc' = "escaped"
  /\ UNCHANGED <<sys, holeVars, skyVars, repeatVars, appVars, kernelVars, poolVars, origin, direction, stepSize, maxDist, pos, vel,
                 transmittance, totalDist, iterations, diskHit, tBefore>>

\* Calls made again per behaviour.
MaxRepeats == 2

\* Variant of TraceAgain in which accumulatedColor is a static local: the
\* repeated call starts from the colour the previous call left.
TraceAgainStatic ==
  /\ sys = "trace"
  /\ tpc \in {"absorbed", "escaped"}
  /\ repeats < MaxRepeats
  /\ repeats' = repeats + 1
  /\ firstResult' =
       IF repeats = 0 THEN <<accumulatedColor, transmittance, iterations>> ELSE firstResult
  /\ pos' = origin
  /\ vel' = direction
  /\ transmittance' = SC
  /\ totalDist' = 0
  /\ tpc' = "loop"
  /\ iterations' = 0
  /\ bgAdded' = FALSE
  /\ diskHit' = FALSE
  /\ tBefore' = SC
  /\ UNCHANGED <<sys, holeVars, skyVars, appVars, kernelVars, poolVars, origin, direction, stepSize,
                 maxDist, accumulatedColor>>

\* trace called again on the same BlackHole with the same ray, stepSize and
\* maxDist once the previous call has returned: every local is initialised
\* afresh (BlackHole.cpp:168-174); mass and rs are what the previous call left.
TraceAgain ==
  /\ sys = "trace"
  /\ tpc \in {"absorbed", "escaped"}
  /\ repeats < MaxRepeats
  /\ repeats' = repeats + 1
  /\ firstResult' =
       IF repeats = 0 THEN <<accumulatedColor, transmittance, iterations>> ELSE firstResult
  /\ pos' = origin
  /\ vel' = direction
  /\ accumulatedColor' = Zero3
  /\ transmittance' = SC
  /\ totalDist' = 0
  /\ tpc' = "loop"
  /\ iterations' = 0
  /\ bgAdded' = FALSE
  /\ diskHit' = FALSE
  /\ tBefore' = SC
  /\ UNCHANGED <<sys, holeVars, skyVars, appVars, kernelVars, poolVars, origin, direction, stepSize,
                 maxDist>>

\* ------------------------------------------------------------------------
\* Renderer::tracePixel (src/src/Renderer.cpp): tone mapping, gamma, 8 bits
\* ------------------------------------------------------------------------

\* ln(x) for 0 < x <= 1, as the inverse of ExpFx found by bisection on [lo, hi].
RECURSIVE LnSearch(_, _, _)
LnSearch(x, lo, hi) ==
  IF hi - lo <= 1 THEN lo
  ELSE Val({ IF ExpFx(m) <= x THEN LnSearch(x, m, hi) ELSE LnSearch(x, lo, m) :
             m \in {(lo + hi) \div 2} })

LnFx(x) == IF x >= SC THEN 0 ELSE LnSearch(x, -8 * SC, 0)

\* std::pow(x, 1.0 / 2.2) for 0 <= x <= 1; pow(0, .) = 0.
GammaCorrect(x) == IF x <= 0 THEN 0 ELSE ExpFx(MulDiv(LnFx(x), 10, 22))

\* Reinhard tone mapping of one channel: c / (c + 1).
ToneMap(c) == DivFx(c, c + SC)

\* min(255, (int)(c * 255.0)) after tone mapping and gamma correction.
Channel(c) == Min(255, (GammaCorrect(ToneMap(c)) * 255) \div SC)

\* Renderer::tracePixel applied to the colour trace returned.
TracePixel(color) == [r |-> Channel(color.x), g |-> Channel(color.y), b |-> Channel(color.z)]

\* ------------------------------------------------------------------------
\* The calls of trace that are explored
\* ------------------------------------------------------------------------

\* A vector given in tenths.
V10(a, b, c) == Vector3((a * SC) \div 10, (b * SC) \div 10, (c * SC) \div 10)

Call(o, d, ss, md) == [ray |-> Ray(o, d), ss |-> ss, md |-> md]

\* A direction in which sampleBackground shows a star.
StarDirection == V10(1, 1, 10)

\* Origins strictly inside the horizon (|origin| < rs = 2).
InsideOrigins == {V10(0, 10, 0), V10(10, 0, -10), V10(0, 0, 0), V10(-12, 12, 8)}

\* Rays that start inside the horizon, with every step size and distance.
InsideCalls ==
  {Call(o, d, ss, md) :
     o \in InsideOrigins,
     d \in {V10(0, -30, 10), StarDirection, V10(0, 0, 0)},
     ss \in {-(SC \div 10), 0, SC \div 10},
     md \in {-SC, 0, (3 * SC) \div 100, 100 * SC}}

\* The reference scenario: origin (0,3,-20) aimed at (0,0,0), defaults.
ReferenceOrigin == V10(0, 30, -200)

ReferenceCall == Call(ReferenceOrigin, V10(0, -30, 200), SC \div 10, 100 * SC)

\* Rays aimed radially outward (direction parallel to the origin vector).
RadialCalls ==
  {Call(o, o, ss, md) :
     o \in {V10(0, 30, 0), V10(0, -50, 0), V10(0, 30, 40), V10(0, 28, -96),
            V10(30, 30, 30), V10(60, 0, 0), V10(0, 0, -30), V10(3, 3, 30)},
     ss \in {SC \div 10, SC \div 2},
     md \in {5 * SC, 30 * SC}}

\* Rays that cross or graze the disk, or bend around the hole.
DiskCalls ==
  {Call(V10(100, 10, 0), V10(0, -10, 0), ss, 3 * SC) :
     ss \in {-(SC \div 10), 0, SC \div 50, SC \div 10}}
  \cup
  {Call(V10(-100, 0, 0), V10(0, -10, 0), ss, 3 * SC) : ss \in {4 * SC}}
  \cup
  {Call(V10(0, 30, -200), d, ss, 60 * SC) :
     d \in {V10(2, -1, 10), V10(1, -2, 10), V10(3, -1, 10)},
     ss \in {SC \div 10, SC}}
  \cup
  {Call(V10(230, 0, 0), V10(-10, 0, 3), ss, 60 * SC) : ss \in {SC \div 10, SC}}

\* Rays marched at the minimum step (stepSize 0 clamps every step to MinStep).
MinStepCalls ==
  {Call(V10(0, 30, 0), V10(0, 10, 0), 0, md) :
     md \in {(3 * SC) \div 100, (4 * SC) \div 100, (5 * SC) \div 100, SC, 2 * SC}}

\* Rays aimed at the centre from just outside the horizon, whose third step
\* crosses it; maxDist on either side of the distance travelled by then.
CrossingCalls ==
  {Call(V10(-3, -3, -30), StarDirection, SC, md) : md \in {SC, (12 * SC) \div 10, 2 * SC}}

TraceCalls ==
  InsideCalls \cup {ReferenceCall} \cup RadialCalls \cup DiskCalls \cup MinStepCalls
    \cup CrossingCalls

\* The masses a BlackHole is constructed with (default 1.0).
Masses == {SC}

\* ------------------------------------------------------------------------
\* Ray construction followed by trace
\* ------------------------------------------------------------------------

\* Direction arguments of the Ray constructor: the zero vector, a vector too
\* short for its squared length to be represented, axis and oblique vectors
\* of several lengths.
RayDirections ==
  {Zero3, Vector3(1, 0, 0), V10(0, -30, 10), V10(0, 0, -70), V10(1, 1, 10), V10(-3, 0, 0),
   V10(20, -10, 20), V10(0, 1, 0)}

\* Origins outside the disk, in the disk and inside the horizon.
RayOrigins == {V10(0, 30, -200), V10(-100, 1, 0), V10(0, 10, 0)}

\* Ray::Ray(origin, direction): direction(direction.normalized()).  kpos keeps
\* the constructor's direction argument.
RayConstruct ==
  /\ sys = "trace"
  /\ tpc = "idle"
  /\ kop = "idle"
  /\ \E o \in RayOrigins, d \in RayDirections :
       /\ kpos' = d
       /\ origin' = o
       /\ direction' = Normalized(d)
  /\ kop' = "ray"
  /\ UNCHANGED <<sys, holeVars, skyVars, repeatVars, appVars, poolVars, kdir, knoise, kdensity, kdelta,
                 stepSize, maxDist, pos, vel, accumulatedColor, transmittance, totalDist, tpc,
                 iterations, bgAdded, diskHit, tBefore>>

\* trace(ray, stepSize, maxDist) on the ray just constructed.
TraceRay ==
  /\ kop = "ray"
  /\ \E ss \in {0, SC \div 10}, md \in {0, SC \div 10, 2 * SC} :
       TraceBegin([origin |-> origin, direction |-> direction], ss, md)

\* ------------------------------------------------------------------------
\* diskDensity and dopplerFactor applied to single inputs
\* ------------------------------------------------------------------------

\* Masses for the single-function checks: rs = 1, 2 and 4.
KernelMasses == {SC \div 2, SC, 2 * SC}

\* Positions on, beside and at the edges of the disk of each mass
\* (r = 2.5 rs, 3 rs, 10 rs, 12 rs; |y| = 0.2 and just above).
KernelPositions ==
  {Vector3((a * SC) \div 10, b, (c * SC) \div 10) :
     a \in {-500, -241, -240, -100, -50, -49, 0, 25, 50, 60, 100, 120, 200, 240, 300,
            480, 490},
     b \in {-(3 * SC) \div 10, -SC \div 5, -SC \div 10, 0, SC \div 5, SC \div 5 + 1},
     c \in {-100, 0, 30, 70}}

\* Positions inside the disk of the black hole (non-zero band, thin slab).
InDisk(p, rs_) ==
  /\ Length(p) >= MulFx(rs_, (5 * SC) \div 2)
  /\ Length(p) <= MulFx(rs_, 12 * SC)
  /\ Abs(p.y) <= SC \div 5

DopplerPositions == {p \in KernelPositions : p.y \in {0, -SC \div 10}}

\* Unit ray directions, among them directions nearly perpendicular to the orbit.
KernelDirs ==
  {Normalized(V10(a, b, c)) :
     a \in {-10, 0, 1, 10}, b \in {-10, 0}, c \in {-10, -1, 0, 1, 10}} \ {Zero3}

\* diskDensity(p)
KernelDensity ==
  /\ sys = "kernel"
  /\ kop = "idle"
  /\ \E p \in KernelPositions :
       /\ kpos' = p
       /\ knoise' = DiskPattern(Length(p), Atan2Fx(p.z, p.x))
       /\ kdensity' = DiskDensity(p, rs)
  /\ kop' = "density"
  /\ UNCHANGED <<sys, holeVars, skyVars, repeatVars, appVars, traceVars, poolVars, kdir, kdelta>>

\* dopplerFactor(p, d)
KernelDoppler ==
  /\ sys = "kernel"
  /\ kop = "idle"
  /\ \E p \in DopplerPositions, d \in KernelDirs :
       /\ kpos' = p
       /\ kdir' = d
       /\ kdelta' = DopplerFactor(p, d, rs)
  /\ kop' = "doppler"
  /\ UNCHANGED <<sys, holeVars, skyVars, repeatVars, appVars, traceVars, poolVars, knoise, kdensity>>

\* ------------------------------------------------------------------------
\* ThreadPool and Renderer::render (src/src/Renderer.cpp)
\* ------------------------------------------------------------------------

\* Worker threads of the pool (the constructor's numThreads).
NumWorkers == 2

\* Calls of render per behaviour.
MaxFrames == 2

\* "int rowsPerChunk = 8" in render.
RowsPerChunk == 8

\* The images explored, as <<width, height>>: a single pixel, exactly one
\* chunk, one chunk and a row, two chunks and a row.
ImageSizes ==
  {<<1, 1>>, <<2, RowsPerChunk>>, <<1, RowsPerChunk + 1>>, <<2, 2 * RowsPerChunk + 1>>}

MaxHeight == 2 * RowsPerChunk + 1

Workers == 1 .. NumWorkers

\* The thread that calls render and owns the Renderer.
Main == 0

NoThread == -1

NoTask == -1

\* The first rows of the chunks an image of the largest height is cut into.
ChunkStarts == {r \in 0 .. MaxHeight : r % RowsPerChunk = 0}

\* Variant of ChunkEnd without the clamp to height.
ChunkEndUnclamped(start) == start + RowsPerChunk

\* "int endY = std::min(y + rowsPerChunk, height)" of a chunk task.
ChunkEnd(start) == Min(start + RowsPerChunk, height)

\* The index renderRow writes for pixel x of row r: pixels[y * width + x].
PixelIndex(r, x) == r * width + x

\* The indices one call of renderRow writes.
RowIndices(r) == {PixelIndex(r, x) : x \in 0 .. width - 1}

\* Variant of WaitFinishedPredicate that ignores activeTasks.
QueueEmptyOnly == tasks = <<>>

\* The predicate of finishedCondition.wait in waitFinished.
WaitFinishedPredicate == tasks = <<>> /\ activeTasks = 0

\* The predicate of condition.wait in the worker loop.
WorkerPredicate == stop \/ tasks # <<>>

\* render starts: the loop variable y is 0 and nothing is written yet.
Render ==
  /\ sys = "pool"
  /\ mpc \in {"idle", "returned"}
  /\ frames < MaxFrames
  /\ frames' = frames + 1
  /\ yLoop' = 0
  /\ mpc' = "enqueue"
  /\ pixels' = [i \in DOMAIN pixels |-> NoTask]
  /\ enqueued' = {}
  /\ finished' = [t \in ChunkStarts |-> 0]
  /\ UNCHANGED <<sys, holeVars, skyVars, repeatVars, appVars, traceVars, kernelVars, width, height, queuedAtStop, tasks, activeTasks,
                 stop, queueMutex, conditionWaiters, finishedWaiters, wpc, wtask, wrow,
                 badWrite>>

\* ThreadPool::enqueue, first block: lock, tasks.emplace, unlock.
Enqueue ==
  /\ sys = "pool"
  /\ mpc = "enqueue"
  /\ yLoop < height
  /\ queueMutex = NoThread
  /\ tasks' = Append(tasks, yLoop)
  /\ enqueued' = enqueued \cup {yLoop}
  /\ mpc' = "notify"
  /\ UNCHANGED <<sys, holeVars, skyVars, repeatVars, appVars, traceVars, kernelVars, width, height, queuedAtStop, pixels, activeTasks,
                 stop, queueMutex, conditionWaiters, finishedWaiters, wpc, wtask, wrow,
                 yLoop, frames, finished, badWrite>>

\* ThreadPool::enqueue, condition.notify_one(); then "y += rowsPerChunk".
EnqueueNotify ==
  /\ sys = "pool"
  /\ mpc = "notify"
  /\ \/ /\ conditionWaiters = {}
        /\ UNCHANGED <<conditionWaiters, wpc>>
     \/ \E w \in conditionWaiters :
          /\ conditionWaiters' = conditionWaiters \ {w}
          /\ wpc' = [wpc EXCEPT ![w] = "lock"]
  /\ yLoop' = yLoop + RowsPerChunk
  /\ mpc' = "enqueue"
  /\ UNCHANGED <<sys, holeVars, skyVars, repeatVars, appVars, traceVars, kernelVars, width, height, queuedAtStop, pixels, tasks,
                 activeTasks, stop, queueMutex, finishedWaiters, wtask, wrow, frames,
                 enqueued, finished, badWrite>>

\* ThreadPool::waitFinished takes queueMutex (on entry, or when woken).
WaitFinishedLock ==
  /\ sys = "pool"
  /\ \/ mpc = "enqueue" /\ yLoop >= height
     \/ mpc = "woken"
  /\ queueMutex = NoThread
  /\ queueMutex' = Main
  /\ mpc' = "check"
  /\ UNCHANGED <<sys, holeVars, skyVars, repeatVars, appVars, traceVars, kernelVars, width, height, queuedAtStop, pixels, tasks,
                 activeTasks, stop, conditionWaiters, finishedWaiters, wpc, wtask, wrow,
                 yLoop, frames, enqueued, finished, badWrite>>

\* waitFinished evaluates its predicate under the mutex; it returns when true.
WaitFinishedCheck ==
  /\ sys = "pool"
  /\ mpc = "check"
  /\ IF WaitFinishedPredicate
       THEN queueMutex' = NoThread /\ mpc' = "returned"
       ELSE queueMutex' = queueMutex /\ mpc' = "block"
  /\ UNCHANGED <<sys, holeVars, skyVars, repeatVars, appVars, traceVars, kernelVars, width, height, queuedAtStop, pixels, tasks,
                 activeTasks, stop, conditionWaiters, finishedWaiters, wpc, wtask, wrow,
                 yLoop, frames, enqueued, finished, badWrite>>

\* finishedCondition.wait releases the mutex and blocks, atomically.
WaitFinishedBlock ==
  /\ sys = "pool"
  /\ mpc = "block"
  /\ queueMutex' = NoThread
  /\ finishedWaiters' = finishedWaiters \cup {Main}
  /\ mpc' = "blocked"
  /\ UNCHANGED <<sys, holeVars, skyVars, repeatVars, appVars, traceVars, kernelVars, width, height, queuedAtStop, pixels, tasks,
                 activeTasks, stop, conditionWaiters, wpc, wtask, wrow, yLoop, frames,
                 enqueued, finished, badWrite>>

\* A spurious wake-up of finishedCondition.wait, which the C++ standard allows.
SpuriousWake ==
  /\ sys = "pool"
  /\ mpc = "blocked"
  /\ finishedWaiters' = finishedWaiters \ {Main}
  /\ mpc' = "woken"
  /\ UNCHANGED <<sys, holeVars, skyVars, repeatVars, appVars, traceVars, kernelVars, width, height, queuedAtStop, pixels, tasks,
                 activeTasks, stop, queueMutex, conditionWaiters, wpc, wtask, wrow, yLoop,
                 frames, enqueued, finished, badWrite>>

\* Worker loop, predicate false: condition.wait releases the mutex and blocks.
WorkerBlock(w) ==
  /\ sys = "pool"
  /\ wpc[w] = "lock"
  /\ queueMutex = NoThread
  /\ ~WorkerPredicate
  /\ conditionWaiters' = conditionWaiters \cup {w}
  /\ wpc' = [wpc EXCEPT ![w] = "blocked"]
  /\ UNCHANGED <<sys, holeVars, skyVars, repeatVars, appVars, traceVars, kernelVars, width, height, queuedAtStop, pixels, tasks,
                 activeTasks, stop, queueMutex, finishedWaiters, wtask, wrow, mpc, yLoop,
                 frames, enqueued, finished, badWrite>>

\* Variant of WorkerExit that returns as soon as stop is set, whatever is
\* left in the queue.
WorkerExitOnStop(w) ==
  /\ sys = "pool"
  /\ wpc[w] = "lock"
  /\ queueMutex = NoThread
  /\ stop
  /\ wpc' = [wpc EXCEPT ![w] = "exited"]
  /\ UNCHANGED <<sys, holeVars, skyVars, repeatVars, appVars, traceVars, kernelVars, width, height, queuedAtStop, pixels, tasks,
                 activeTasks, stop, queueMutex, conditionWaiters, finishedWaiters, wtask,
                 wrow, mpc, yLoop, frames, enqueued, finished, badWrite>>

\* Worker loop: "if (stop && tasks.empty()) return".
WorkerExit(w) ==
  /\ sys = "pool"
  /\ wpc[w] = "lock"
  /\ queueMutex = NoThread
  /\ stop /\ tasks = <<>>
  /\ wpc' = [wpc EXCEPT ![w] = "exited"]
  /\ UNCHANGED <<sys, holeVars, skyVars, repeatVars, appVars, traceVars, kernelVars, width, height, queuedAtStop, pixels, tasks,
                 activeTasks, stop, queueMutex, conditionWaiters, finishedWaiters, wtask,
                 wrow, mpc, yLoop, frames, enqueued, finished, badWrite>>

\* Worker loop, under the mutex: take tasks.front(), pop, activeTasks++.
WorkerPop(w) ==
  /\ sys = "pool"
  /\ wpc[w] = "lock"
  /\ queueMutex = NoThread
  /\ tasks # <<>>
  /\ wtask' = [wtask EXCEPT ![w] = Head(tasks)]
  /\ wrow' = [wrow EXCEPT ![w] = Head(tasks)]
  /\ tasks' = Tail(tasks)
  /\ activeTasks' = activeTasks + 1
  /\ wpc' = [wpc EXCEPT ![w] = "run"]
  /\ UNCHANGED <<sys, holeVars, skyVars, repeatVars, appVars, traceVars, kernelVars, width, height, queuedAtStop, pixels, stop,
                 queueMutex, conditionWaiters, finishedWaiters, mpc, yLoop, frames,
                 enqueued, finished, badWrite>>

\* The chunk task calls renderRow for its next row: width writes into pixels.
WorkerRow(w) ==
  /\ sys = "pool"
  /\ wpc[w] = "run"
  /\ wrow[w] < ChunkEnd(wtask[w])
  /\ badWrite' = (badWrite \/ \E i \in RowIndices(wrow[w]) :
                                i \notin DOMAIN pixels \/ pixels[i] # NoTask)
  /\ pixels' = [i \in DOMAIN pixels |->
                  IF i \in RowIndices(wrow[w]) THEN wtask[w] ELSE pixels[i]]
  /\ wrow' = [wrow EXCEPT ![w] = wrow[w] + 1]
  /\ UNCHANGED <<sys, holeVars, skyVars, repeatVars, appVars, traceVars, kernelVars, width, height, queuedAtStop, tasks, activeTasks,
                 stop, queueMutex, conditionWaiters, finishedWaiters, wpc, wtask, mpc,
                 yLoop, frames, enqueued, finished>>

\* The task returns and the worker runs "activeTasks--" (no mutex held).
WorkerDone(w) ==
  /\ sys = "pool"
  /\ wpc[w] = "run"
  /\ wrow[w] >= ChunkEnd(wtask[w])
  /\ finished' = [finished EXCEPT ![wtask[w]] = finished[wtask[w]] + 1]
  /\ activeTasks' = activeTasks - 1
  /\ wpc' = [wpc EXCEPT ![w] = "notify"]
  /\ UNCHANGED <<sys, holeVars, skyVars, repeatVars, appVars, traceVars, kernelVars, width, height, queuedAtStop, pixels, tasks, stop,
                 queueMutex, conditionWaiters, finishedWaiters, wtask, wrow, mpc, yLoop,
                 frames, enqueued, badWrite>>

\* The worker runs "finishedCondition.notify_one()" (no mutex held).
WorkerNotify(w) ==
  /\ sys = "pool"
  /\ wpc[w] = "notify"
  /\ IF Main \in finishedWaiters
       THEN finishedWaiters' = finishedWaiters \ {Main} /\ mpc' = "woken"
       ELSE UNCHANGED <<finishedWaiters, mpc>>
  /\ wpc' = [wpc EXCEPT ![w] = "lock"]
  /\ UNCHANGED <<sys, holeVars, skyVars, repeatVars, appVars, traceVars, kernelVars, width, height, queuedAtStop, pixels, tasks,
                 activeTasks, stop, queueMutex, conditionWaiters, wtask, wrow, yLoop,
                 frames, enqueued, finished, badWrite>>

\* ThreadPool::~ThreadPool, first block: lock, stop = true, unlock.
Destroy ==
  /\ sys = "pool"
  /\ mpc \in {"idle", "returned"}
  /\ queueMutex = NoThread
  /\ stop' = TRUE
  /\ queuedAtStop' = Len(tasks)
  /\ mpc' = "notifyAll"
  /\ UNCHANGED <<sys, holeVars, skyVars, repeatVars, appVars, traceVars, kernelVars, width, height, pixels, tasks,
                 activeTasks, queueMutex, conditionWaiters, finishedWaiters, wpc, wtask,
                 wrow, yLoop, frames, enqueued, finished, badWrite>>

\* ThreadPool::~ThreadPool, first block, run by a client that has called
\* enqueue and not waitFinished: tasks may still be in the queue.
DestroyQueued ==
  /\ sys = "pool"
  /\ mpc = "enqueue"
  /\ queueMutex = NoThread
  /\ stop' = TRUE
  /\ queuedAtStop' = Len(tasks)
  /\ mpc' = "notifyAll"
  /\ UNCHANGED <<sys, holeVars, skyVars, repeatVars, appVars, traceVars, kernelVars, width, height, pixels, tasks,
                 activeTasks, queueMutex, conditionWaiters, finishedWaiters, wpc, wtask,
                 wrow, yLoop, frames, enqueued, finished, badWrite>>

\* ThreadPool::~ThreadPool, condition.notify_all().
DestroyNotify ==
  /\ sys = "pool"
  /\ mpc = "notifyAll"
  /\ wpc' = [w \in Workers |-> IF w \in conditionWaiters THEN "lock" ELSE wpc[w]]
  /\ conditionWaiters' = {}
  /\ mpc' = "join"
  /\ UNCHANGED <<sys, holeVars, skyVars, repeatVars, appVars, traceVars, kernelVars, width, height, queuedAtStop, pixels, tasks,
                 activeTasks, stop, queueMutex, finishedWaiters, wtask, wrow, yLoop,
                 frames, enqueued, finished, badWrite>>

\* ThreadPool::~ThreadPool, worker.join() for every worker.
DestroyJoin ==
  /\ sys = "pool"
  /\ mpc = "join"
  /\ \A w \in Workers : wpc[w] = "exited"
  /\ mpc' = "destroyed"
  /\ UNCHANGED <<sys, holeVars, skyVars, repeatVars, appVars, traceVars, kernelVars, width, height, queuedAtStop, pixels, tasks,
                 activeTasks, stop, queueMutex, conditionWaiters, finishedWaiters, wpc,
                 wtask, wrow, yLoop, frames, enqueued, finished, badWrite>>

\* ------------------------------------------------------------------------
\* sampleBackground called repeatedly
\* ------------------------------------------------------------------------

\* Calls of sampleBackground per behaviour.
MaxSkyCalls == 3

\* Directions sampleBackground is called with: unit vectors, two of them
\* showing a star, and the zero vector a degenerate ray carries.
SkyDirs ==
  {Normalized(d) : d \in {StarDirection, V10(-9, 4, 1), V10(0, 10, 0), V10(0, -10, 0),
                          V10(10, 0, 0), V10(-10, 0, 0), V10(3, -4, 12), V10(0, 0, 0)}}

\* sampleBackground(d), whatever was called before.
SkyCall ==
  /\ sys = "sky"
  /\ skyCalls < MaxSkyCalls
  /\ \E d \in SkyDirs :
       \E c \in {SampleBackground(d)} :
         /\ skyDir' = d
         /\ skyColor' = c
         /\ skyRepeat' = (\E p \in skySeen : p[1] = d)
         /\ skySeen' = skySeen \cup {<<d, c>>}
  /\ skyCalls' = skyCalls + 1
  /\ UNCHANGED <<sys, holeVars, traceVars, kernelVars, poolVars, repeatVars, appVars,
                 cellVars>>

\* u and v lie in [0, 1], so (uint32_t)(u * 4000) and (uint32_t)(v * 4000) lie
\* in 0 .. HashCells.
HashCells == 4000

\* The rows of cells examined: the first, the middle and the last ones.
CellRows == {0, 1, 2, 1999, 2000, 2001, 3998, 3999, 4000}

\* The part of sampleBackground after u and v: the hash of the cell and the
\* colour it gives.
StarSample ==
  /\ sys = "stars"
  /\ ~cellDone
  /\ cellHash' = StarHash(cell[1], cell[2])
  /\ cellColor' = StarColor(StarHash(cell[1], cell[2]))
  /\ cellDone' = TRUE
  /\ UNCHANGED <<sys, holeVars, traceVars, kernelVars, poolVars, repeatVars, appVars,
                 skyCalls, skyDir, skyColor, skySeen, skyRepeat, cell>>

\* ------------------------------------------------------------------------
\* Application::handleEvents (src/src/core/Application.cpp)
\* ------------------------------------------------------------------------

\* ------------------------------------------------------------------------
\* VideoRecorder
\* ------------------------------------------------------------------------

\* A path is a sequence of strings; <<>> is the empty string.

\* VideoRecorder::VideoRecorder: the members after construction.
\* ffmpegContext is "nullptr" or "ctx"; frameCount is the context's counter
\* of encoded frames.
VideoRecorder ==
  [recording |-> FALSE, filename |-> <<>>, audioFilePath |-> <<>>, frameWidth |-> 0,
   frameHeight |-> 0, frameRate |-> 60, ffmpegContext |-> "nullptr", frameCount |-> 0]

\* Variant of cleanupEncoder that keeps the context.
cleanupEncoderKeeps(rec) == rec

\* VideoRecorder::cleanupEncoder: nothing without a context, else the
\* context is freed and the pointer set to nullptr.
cleanupEncoder(rec) ==
  IF rec.ffmpegContext = "nullptr"
    THEN rec
    ELSE [rec EXCEPT !.ffmpegContext = "nullptr", !.frameCount = 0]

\* The lines of initializeEncoder at which it fails (cleanupEncoder, return
\* false); avio_open creates the output file just before the test of line 273.
EncoderFailures == {102, 137, 151, 242, 251, 273, 287, 295, 305, 313, 327}

\* VideoRecorder::initializeEncoder failing at line failAt (0: no failure):
\* <<recorder, files, result>>.
initializeEncoder(rec, fs, failAt) ==
  IF failAt = 0
    THEN <<[rec EXCEPT !.ffmpegContext = "ctx", !.frameCount = 0],
           fs \cup {rec.filename}, TRUE>>
    ELSE <<cleanupEncoder([rec EXCEPT !.ffmpegContext = "ctx", !.frameCount = 0]),
           IF failAt > 273 THEN fs \cup {rec.filename} ELSE fs, FALSE>>

\* Variant of VideoRecorder_startRecording that stores its arguments before
\* it tests the recording flag.
VideoRecorder_startRecordingStoresFirst(rec, fs, file, w, h, fps, audio, failAt) ==
  LET stored == [rec EXCEPT !.filename = file, !.audioFilePath = audio, !.frameWidth = w,
                            !.frameHeight = h, !.frameRate = fps]
      r == initializeEncoder(stored, fs, failAt)
  IN IF rec.recording
       THEN <<stored, fs, FALSE>>
       ELSE <<[r[1] EXCEPT !.recording = r[3]], r[2], r[3]>>

\* VideoRecorder::startRecording: <<recorder, files, result>>. False at once
\* while recording; else the arguments are stored, the encoder initialized,
\* and recording becomes its result.
VideoRecorder_startRecording(rec, fs, file, w, h, fps, audio, failAt) ==
  IF rec.recording
    THEN <<rec, fs, FALSE>>
    ELSE LET r == initializeEncoder([rec EXCEPT !.filename = file, !.audioFilePath = audio,
                                                !.frameWidth = w, !.frameHeight = h,
                                                !.frameRate = fps], fs, failAt)
         IN <<[r[1] EXCEPT !.recording = r[3]], r[2], r[3]>>

\* VideoRecorder::addFrame of a w x h frame: <<recorder, result>>. After its
\* two tests the outcome is "ok" or the failure of "make_writable",
\* "send_frame" or "receive_packet"; frameCount counts the frames handed to
\* the encoder.
addFrame(rec, w, h, outcome) ==
  IF ~rec.recording \/ rec.ffmpegContext = "nullptr"
    THEN <<rec, FALSE>>
    ELSE IF w # rec.frameWidth \/ h # rec.frameHeight
      THEN <<rec, FALSE>>
      ELSE IF outcome = "make_writable"
        THEN <<rec, FALSE>>
        ELSE <<[rec EXCEPT !.frameCount = @ + 1], outcome = "ok">>

\* The temporary output of muxAudioWithVideo: filename + ".temp.mp4".
tempFilename(rec) == Append(rec.filename, ".temp.mp4")

\* VideoRecorder::muxAudioWithVideo: <<files, result>>. The outcome is "ok"
\* or the failure of one of its calls: "video_input", "audio_input",
\* "output_context", "avio_open", "write_header", "remove", "rename". The video input
\* cannot be opened when no file is at filename; avio_open creates the
\* temporary file; at the end the original is removed and the temporary file
\* renamed to it, and when either fails the temporary file is removed.
muxAudioWithVideo(rec, fs, outcome) ==
  IF rec.filename \notin fs \/ outcome \in {"video_input", "audio_input", "output_context",
                                           "avio_open"}
    THEN <<fs, FALSE>>
    ELSE IF outcome = "write_header"
      THEN <<fs \cup {tempFilename(rec)}, FALSE>>
      ELSE IF outcome = "remove"
        THEN <<fs \ {tempFilename(rec)}, FALSE>>
        ELSE IF outcome = "rename"
          THEN <<fs \ {rec.filename, tempFilename(rec)}, FALSE>>
          ELSE <<fs \ {tempFilename(rec)}, TRUE>>

\* VideoRecorder::stopRecording: <<recorder, files, mux>>, mux being "none",
\* "ok" or "failed". Nothing when not recording; else the encoder is cleaned
\* up, recording becomes false, and with an audio path the audio is muxed.
VideoRecorder_stopRecording(rec, fs, outcome) ==
  IF ~rec.recording
    THEN <<rec, fs, "none">>
    ELSE LET stopped == [cleanupEncoder(rec) EXCEPT !.recording = FALSE]
             mux == muxAudioWithVideo(stopped, fs, outcome)
         IN IF stopped.audioFilePath # <<>>
              THEN <<stopped, mux[1], IF mux[2] THEN "ok" ELSE "failed">>
              ELSE <<stopped, fs, "none">>

\* VideoRecorder::moveFile(newPath): <<recorder, files, result>>. The outcome
\* is "rename" (rename succeeds), or rename fails and then "fopen_src" or
\* "fopen_dst" fails, "fwrite" fails, or the file is "copied". rename and
\* fopen of the source need a file at filename.
moveFile(rec, fs, newPath, outcome) ==
  IF rec.filename = <<>> \/ newPath = <<>>
    THEN <<rec, fs, FALSE>>
    ELSE IF rec.filename \notin fs \/ outcome = "fopen_src"
      THEN <<rec, fs, FALSE>>
      ELSE IF outcome = "fopen_dst"
        THEN <<rec, fs, FALSE>>
        ELSE IF outcome = "fwrite"
          THEN <<rec, fs \ {newPath}, FALSE>>
          ELSE <<[rec EXCEPT !.filename = newPath],
                 (fs \ {rec.filename}) \cup {newPath}, TRUE>>

\* VideoRecorder calls per behaviour.
MaxRecorderCalls == 4

\* A call of VideoRecorder::startRecording with the encoder succeeding
\* (failAt = 0) or failing at line failAt.
StartRecording(file, size, fps, audio, failAt) ==
  /\ sys = "recorder"
  /\ rcalls < MaxRecorderCalls
  /\ \E r \in {VideoRecorder_startRecording(videoRecorder, files, file, size[1], size[2],
                                           fps, audio, failAt)} :
       /\ videoRecorder' = r[1]
       /\ files' = r[2]
       /\ rret' = r[3]
  /\ rop' = "startRecording"
  /\ rargs' = <<file, size[1], size[2], fps, audio, failAt>>
  /\ rprev' = videoRecorder
  /\ fprev' = files
  /\ muxResult' = "none"
  /\ rcalls' = rcalls + 1
  /\ UNCHANGED <<sys, holeVars, skyVars, repeatVars, traceVars, kernelVars, poolVars,
                 eventVars, managerVars>>

\* A call of VideoRecorder::addFrame.
AddFrame(size, outcome) ==
  /\ sys = "recorder"
  /\ rcalls < MaxRecorderCalls
  /\ \E r \in {addFrame(videoRecorder, size[1], size[2], outcome)} :
       /\ videoRecorder' = r[1]
       /\ rret' = r[2]
  /\ rop' = "addFrame"
  /\ rargs' = <<size[1], size[2], outcome>>
  /\ rprev' = videoRecorder
  /\ fprev' = files
  /\ muxResult' = "none"
  /\ rcalls' = rcalls + 1
  /\ UNCHANGED <<sys, holeVars, skyVars, repeatVars, traceVars, kernelVars, poolVars,
                 eventVars, managerVars, files>>

\* A call of VideoRecorder::stopRecording, the muxing ending in outcome.
StopRecording(outcome) ==
  /\ sys = "recorder"
  /\ rcalls < MaxRecorderCalls
  /\ \E r \in {VideoRecorder_stopRecording(videoRecorder, files, outcome)} :
       /\ videoRecorder' = r[1]
       /\ files' = r[2]
       /\ muxResult' = r[3]
  /\ rop' = "stopRecording"
  /\ rargs' = <<outcome>>
  /\ rret' = FALSE
  /\ rprev' = videoRecorder
  /\ fprev' = files
  /\ rcalls' = rcalls + 1
  /\ UNCHANGED <<sys, holeVars, skyVars, repeatVars, traceVars, kernelVars, poolVars,
                 eventVars, managerVars>>

\* A call of VideoRecorder::moveFile.
MoveFile(newPath, outcome) ==
  /\ sys = "recorder"
  /\ rcalls < MaxRecorderCalls
  /\ \E r \in {moveFile(videoRecorder, files, newPath, outcome)} :
       /\ videoRecorder' = r[1]
       /\ files' = r[2]
       /\ rret' = r[3]
  /\ rop' = "moveFile"
  /\ rargs' = <<newPath, outcome>>
  /\ rprev' = videoRecorder
  /\ fprev' = files
  /\ muxResult' = "none"
  /\ rcalls' = rcalls + 1
  /\ UNCHANGED <<sys, holeVars, skyVars, repeatVars, traceVars, kernelVars, poolVars,
                 eventVars, managerVars>>

\* ------------------------------------------------------------------------
\* Application
\* ------------------------------------------------------------------------

\* Events handled per behaviour.
MaxEvents == 6

\* ResolutionManager::NUM_PRESETS.
NUM_PRESETS == 12

\* ResolutionManager::PRESETS as <<width, height>>; the last one is "Native".
PRESETS ==
  << <<256, 144>>, <<426, 240>>, <<640, 360>>, <<854, 480>>, <<1280, 720>>,
     <<1920, 1080>>, <<2560, 1440>>, <<2880, 1620>>, <<3840, 2160>>,
     <<5120, 2880>>, <<7680, 4320>>, <<0, 0>> >>

\* ResolutionManager::ResolutionManager: currentIndex(5), 1080p.
DefaultIndex == 5

\* ResolutionManager::getCurrent for the index i (PRESETS is 0-based in C++).
getCurrent(i) == PRESETS[i + 1]

\* ResolutionManager::next.
next(i) == (i + 1) % NUM_PRESETS

\* ResolutionManager::previous.
previous(i) == (i - 1 + NUM_PRESETS) % NUM_PRESETS

\* Variant of setResolution without the range test.
setResolutionUnchecked(i, index) == index

\* ResolutionManager::setResolution(index) on the index i: the new index.
setResolution(i, index) == IF index >= 0 /\ index < NUM_PRESETS THEN index ELSE i

\* A call of ResolutionManager::next. A run of next() calls is counted up to
\* NUM_PRESETS; the call after that begins a new run.
ManagerNext ==
  /\ sys = "manager"
  /\ currentIndex' = next(currentIndex)
  /\ mop' = "next"
  /\ marg' = 0
  /\ mprev' = currentIndex
  /\ mop2' = mop
  /\ mprev2' = mprev
  /\ nextRun' = IF mop = "next" /\ nextRun < NUM_PRESETS THEN nextRun + 1 ELSE 1
  /\ runStart' = IF mop = "next" /\ nextRun < NUM_PRESETS THEN runStart ELSE currentIndex
  /\ UNCHANGED <<sys, holeVars, skyVars, repeatVars, traceVars, kernelVars, poolVars,
                 keyVars, sizeVars, recVars>>

\* A call of ResolutionManager::previous.
ManagerPrevious ==
  /\ sys = "manager"
  /\ currentIndex' = previous(currentIndex)
  /\ mop' = "previous"
  /\ marg' = 0
  /\ mprev' = currentIndex
  /\ mop2' = mop
  /\ mprev2' = mprev
  /\ nextRun' = 0
  /\ runStart' = currentIndex
  /\ UNCHANGED <<sys, holeVars, skyVars, repeatVars, traceVars, kernelVars, poolVars,
                 keyVars, sizeVars, recVars>>

\* A call of ResolutionManager::setResolution(index).
ManagerSetResolution(index) ==
  /\ sys = "manager"
  /\ currentIndex' = setResolution(currentIndex, index)
  /\ mop' = "setResolution"
  /\ marg' = index
  /\ mprev' = currentIndex
  /\ mop2' = mop
  /\ mprev2' = mprev
  /\ nextRun' = 0
  /\ runStart' = currentIndex
  /\ UNCHANGED <<sys, holeVars, skyVars, repeatVars, traceVars, kernelVars, poolVars,
                 keyVars, sizeVars, recVars>>

\* Keys of the key-down events: those handleEvents tests before its switch,
\* six of the switch, and one it ignores.
KeySyms ==
  {"SDLK_ESCAPE", "SDLK_q", "SDLK_RETURN", "SDLK_KP_ENTER", "SDLK_r", "SDLK_f", "SDLK_TAB",
   "SDLK_PLUS", "SDLK_EQUALS", "SDLK_MINUS", "SDLK_UNDERSCORE"}

\* Variant of StopsRecording that leaves out the keypad Enter key.
StopsRecordingNoKeypad(sym) == sym \in {"SDLK_ESCAPE", "SDLK_q", "SDLK_RETURN"}

\* The keys that call stopRecording while isRecording (Application.cpp:261, 266).
StopsRecording(sym) == sym \in {"SDLK_ESCAPE", "SDLK_q", "SDLK_RETURN", "SDLK_KP_ENTER"}

\* Variant of startRecording that sets isRecording whatever the recorder
\* returned.
startRecordingUnchecked ==
  \E failAt \in {0, 102, 327}, audio \in {<<>>, <<"assets/music.wav">>} :
    \E r \in {VideoRecorder_startRecording(videoRecorder, files, <<"/tmp/recording.mp4">>,
                                           1920, 1080, 60, audio, failAt)} :
      /\ videoRecorder' = r[1]
      /\ files' = r[2]
      /\ rret' = r[3]
      /\ rop' = "startRecording"
      /\ isRecording' = TRUE
      /\ startSize' = <<renderWidth, renderHeight>>
      /\ muxResult' = "none"

\* Application::startRecording when isRecording is false: the recorder is
\* started with the temporary file name, the output size (the window's
\* default), the frame rate and the audio file if music plays; isRecording becomes what the recorder
\* returned. The encoder succeeds or fails at its first or at its last step.
startRecording ==
  \E failAt \in {0, 102, 327}, audio \in {<<>>, <<"assets/music.wav">>} :
    \E r \in {VideoRecorder_startRecording(videoRecorder, files, <<"/tmp/recording.mp4">>,
                                           1920, 1080, 60, audio, failAt)} :
      /\ videoRecorder' = r[1]
      /\ files' = r[2]
      /\ rret' = r[3]
      /\ rop' = "startRecording"
      /\ isRecording' = r[3]
      /\ startSize' = IF r[3] THEN <<renderWidth, renderHeight>> ELSE startSize
      /\ muxResult' = "none"

\* Application::stopRecording when isRecording is true: the recorder is
\* stopped, isRecording becomes false, and unless the save dialog is
\* cancelled the file is moved to the chosen path. Drawn are four of the
\* outcomes of the muxing and three of those of the move.
stopRecording ==
  \E mux \in {"ok", "audio_input", "write_header", "rename"}, savePath \in {<<>>, <<"Movies/recording.mp4">>} :
   \E move \in (IF savePath = <<>> THEN {"rename"} ELSE {"rename", "fopen_dst", "copied"}) :
    \E st \in {VideoRecorder_stopRecording(videoRecorder, files, mux)} :
      \E mv \in {IF savePath # <<>> THEN moveFile(st[1], st[2], savePath, move)
                                    ELSE <<st[1], st[2], FALSE>>} :
        /\ videoRecorder' = mv[1]
        /\ files' = mv[2]
        /\ rret' = mv[3]
        /\ rop' = "stopRecording"
        /\ muxResult' = st[3]
        /\ isRecording' = FALSE

\* Variant of ResolutionFrozen that never blocks a resolution change.
ResolutionNeverFrozen == FALSE

\* The test at the head of changeResolution: no change while recording.
ResolutionFrozen == isRecording

\* Application::recreateRenderTargets: the renderer and the texture take the
\* size w x h.
recreateRenderTargets(w, h) == textureSize' = <<w, h>>

\* Application::changeResolution(increase): nothing while recording; else the
\* manager steps to the next or previous preset, and unless that preset has
\* the present size, the render size becomes the preset's and the render
\* targets are recreated.
changeResolution(increase) ==
  IF ResolutionFrozen
    THEN UNCHANGED <<currentIndex, renderWidth, renderHeight, textureSize>>
    ELSE \E i \in {IF increase THEN next(currentIndex) ELSE previous(currentIndex)} :
           /\ currentIndex' = i
           /\ IF getCurrent(i) = <<renderWidth, renderHeight>>
                THEN UNCHANGED <<renderWidth, renderHeight, textureSize>>
                ELSE /\ renderWidth' = getCurrent(i)[1]
                     /\ renderHeight' = getCurrent(i)[2]
                     /\ recreateRenderTargets(getCurrent(i)[1], getCurrent(i)[2])

\* Application::toggleFullscreen: the flag flips and the render targets are
\* recreated at the unchanged render size.
toggleFullscreen ==
  /\ isFullscreen' = ~isFullscreen
  /\ recreateRenderTargets(renderWidth, renderHeight)
  /\ UNCHANGED <<currentIndex, renderWidth, renderHeight>>

\* handleEvents on an SDL_QUIT event.
QuitEvent ==
  /\ sys = "app"
  /\ appEvents < MaxEvents
  /\ running' = FALSE
  /\ esym' = "SDL_QUIT"
  /\ ecmd' = FALSE
  /\ eshift' = FALSE
  /\ rop' = "none"
  /\ wasRecording' = isRecording
  /\ appEvents' = appEvents + 1
  /\ UNCHANGED <<sys, holeVars, skyVars, repeatVars, traceVars, kernelVars, poolVars,
                 isRecording, isFullscreen, currentIndex, renderWidth, renderHeight,
                 textureSize, startSize, videoRecorder, files, rret, rargs, rprev, fprev,
                 muxResult, rcalls, managerVars>>

\* handleEvents on an SDL_KEYDOWN event of key sym with the Command modifier
\* cmd and, for the keys that read it, either state of Shift: Command+R first (startRecording unless
\* already recording), then the stop keys while recording (stopRecording),
\* then the switch.
KeyDown(sym, cmd) ==
  /\ sys = "app"
  /\ appEvents < MaxEvents
  /\ esym' = sym
  /\ ecmd' = cmd
  /\ eshift' \in (IF sym \in {"SDLK_PLUS", "SDLK_EQUALS", "SDLK_MINUS", "SDLK_UNDERSCORE"}
                    THEN BOOLEAN
                    ELSE {FALSE})
  /\ wasRecording' = isRecording
  /\ appEvents' = appEvents + 1
  /\ UNCHANGED <<rargs, rprev, fprev, rcalls, managerVars>>
  /\ IF sym = "SDLK_r" /\ cmd
       THEN /\ IF isRecording
                 THEN /\ rop' = "none"
                      /\ UNCHANGED <<isRecording, startSize, videoRecorder, files, rret,
                                     muxResult>>
                 ELSE startRecording
            /\ UNCHANGED <<running, isFullscreen, currentIndex, renderWidth, renderHeight,
                           textureSize>>
       ELSE IF isRecording /\ StopsRecording(sym)
         THEN /\ stopRecording
              /\ UNCHANGED <<running, isFullscreen, currentIndex, renderWidth, renderHeight,
                             textureSize, startSize>>
         ELSE /\ rop' = "none"
              /\ UNCHANGED <<isRecording, startSize, videoRecorder, files, rret, muxResult>>
              /\ CASE sym = "SDLK_ESCAPE" /\ isFullscreen ->
                        toggleFullscreen /\ UNCHANGED running
                   [] sym = "SDLK_ESCAPE" /\ ~isFullscreen ->
                        /\ running' = FALSE
                        /\ UNCHANGED <<isFullscreen, currentIndex, renderWidth, renderHeight,
                                       textureSize>>
                   [] sym = "SDLK_q" ->
                        /\ running' = FALSE
                        /\ UNCHANGED <<isFullscreen, currentIndex, renderWidth, renderHeight,
                                       textureSize>>
                   [] sym = "SDLK_f" ->
                        toggleFullscreen /\ UNCHANGED running
                   [] sym \in {"SDLK_PLUS", "SDLK_EQUALS"} /\ ~eshift' ->
                        changeResolution(TRUE) /\ UNCHANGED <<running, isFullscreen>>
                   [] sym \in {"SDLK_MINUS", "SDLK_UNDERSCORE"} /\ ~eshift' ->
                        changeResolution(FALSE) /\ UNCHANGED <<running, isFullscreen>>
                   [] OTHER ->
                        UNCHANGED <<running, isFullscreen, currentIndex, renderWidth,
                                    renderHeight, textureSize>>
  /\ UNCHANGED <<sys, holeVars, skyVars, repeatVars, traceVars, kernelVars, poolVars>>

\* ------------------------------------------------------------------------
\* Specifications
\* ------------------------------------------------------------------------

vars == <<sys, holeVars, traceVars, kernelVars, poolVars, skyVars, repeatVars, appVars>>

\* No trace call yet.
TraceIdle ==
  /\ origin = Zero3
  /\ direction = Zero3
  /\ stepSize = 0
  /\ maxDist = 0
  /\ pos = Zero3
  /\ vel = Zero3
  /\ accumulatedColor = Zero3
  /\ transmittance = SC
  /\ totalDist = 0
  /\ tpc = "idle"
  /\ iterations = 0
  /\ bgAdded = FALSE
  /\ diskHit = FALSE
  /\ tBefore = SC
  /\ repeats = 0
  /\ firstResult = <<Zero3, SC, 0>>

\* No single-function application yet.
KernelIdle ==
  /\ kop = "idle"
  /\ kpos = Zero3
  /\ kdir = Zero3
  /\ knoise = 0
  /\ kdensity = 0
  /\ kdelta = 0

\* Renderer::Renderer(w, h) and ThreadPool::ThreadPool: pixels.resize(w * h),
\* stop(false), activeTasks(0), every worker at the top of its loop.
PoolInit(w, h) ==
  /\ width = w
  /\ height = h
  /\ pixels = [i \in 0 .. w * h - 1 |-> NoTask]
  /\ tasks = <<>>
  /\ activeTasks = 0
  /\ stop = FALSE
  /\ queueMutex = NoThread
  /\ conditionWaiters = {}
  /\ finishedWaiters = {}
  /\ wpc = [k \in Workers |-> "lock"]
  /\ wtask = [k \in Workers |-> NoTask]
  /\ wrow = [k \in Workers |-> 0]
  /\ mpc = "idle"
  /\ yLoop = 0
  /\ frames = 0
  /\ enqueued = {}
  /\ finished = [t \in ChunkStarts |-> 0]
  /\ badWrite = FALSE
  /\ queuedAtStop = 0

\* No call of sampleBackground yet.
SkyIdle ==
  /\ skyCalls = 0
  /\ skyDir = Zero3
  /\ skyColor = Zero3
  /\ skySeen = {}
  /\ skyRepeat = FALSE
  /\ cell = <<0, 0>>
  /\ cellHash = <<0, 0>>
  /\ cellColor = Zero3
  /\ cellDone = FALSE

\* Application::Application and initialize(): running is true, nothing is
\* recorded, the window is not fullscreen, no event has been handled.
AppIdle ==
  /\ running = TRUE
  /\ isRecording = FALSE
  /\ isFullscreen = FALSE
  /\ esym = "none"
  /\ ecmd = FALSE
  /\ eshift = FALSE
  /\ wasRecording = FALSE
  /\ appEvents = 0
  /\ currentIndex = DefaultIndex
  /\ renderWidth = getCurrent(DefaultIndex)[1]
  /\ renderHeight = getCurrent(DefaultIndex)[2]
  /\ textureSize = getCurrent(DefaultIndex)
  /\ startSize = <<0, 0>>
  /\ videoRecorder = VideoRecorder
  /\ files = {}
  /\ rop = "none"
  /\ rret = FALSE
  /\ rargs = <<>>
  /\ rprev = VideoRecorder
  /\ fprev = {}
  /\ muxResult = "none"
  /\ rcalls = 0
  /\ mop = "none"
  /\ marg = 0
  /\ mprev = DefaultIndex
  /\ mop2 = "none"
  /\ mprev2 = DefaultIndex
  /\ nextRun = 0
  /\ runStart = DefaultIndex

\* BlackHole::BlackHole(mass): rs = 2 * mass.
HoleInit(masses) == mass \in masses /\ rs = 2 * mass /\ AppIdle

InitTrace == sys = "trace" /\ HoleInit(Masses) /\ TraceIdle /\ KernelIdle /\ PoolInit(1, 1) /\ SkyIdle

TraceCall == \E c \in TraceCalls : TraceBegin(c.ray, c.ss, c.md)

NextTrace ==
  \/ TraceCall
  \/ TraceAbsorb
  \/ TraceIter
  \/ TraceEscape

\* One call of trace per behaviour.
SpecTrace == InitTrace /\ [][NextTrace]_vars

\* The same, with the call running on: a thread in trace keeps taking steps.
SpecTraceLive == SpecTrace /\ WF_vars(NextTrace)

\* Calls of trace made again and again on one BlackHole.
SpecRepeat == InitTrace /\ [][NextTrace \/ TraceAgain]_vars

\* A Ray is constructed and traced; the thread in trace keeps taking steps.
SpecRay ==
  InitTrace
    /\ [][RayConstruct \/ TraceRay \/ TraceAbsorb \/ TraceIter \/ TraceEscape]_vars
    /\ WF_vars(TraceRay \/ TraceAbsorb \/ TraceIter \/ TraceEscape)

InitApp ==
  sys = "app" /\ HoleInit(Masses) /\ TraceIdle /\ KernelIdle /\ PoolInit(1, 1) /\ SkyIdle

\* The events of one run of the application, one handler step per event.
SpecApp ==
  InitApp /\ [][QuitEvent \/ \E sym \in KeySyms, cmd \in BOOLEAN : KeyDown(sym, cmd)]_vars

InitRecorder ==
  sys = "recorder" /\ HoleInit({SC}) /\ TraceIdle /\ KernelIdle /\ PoolInit(1, 1) /\ SkyIdle

\* Calls of one VideoRecorder in any order: starts with two sets of
\* arguments that differ in every argument, one without and one with audio,
\* frames of two sizes, and every outcome of the encoder, of a frame, of the
\* muxing and of a move.
SpecRecorder ==
  InitRecorder
    /\ [][\/ \E a \in {<<<<"a.mp4">>, <<640, 360>>, 30, <<>>>>,
                         <<<<"b.mp4">>, <<1280, 720>>, 60, <<"music.wav">>>>},
               failAt \in {0} \cup EncoderFailures :
               StartRecording(a[1], a[2], a[3], a[4], failAt)
          \/ \E size \in {<<640, 360>>, <<1280, 720>>},
               outcome \in {"ok", "make_writable", "send_frame", "receive_packet"} :
               AddFrame(size, outcome)
          \/ \E outcome \in {"ok", "video_input", "audio_input", "output_context",
                             "avio_open", "write_header", "remove", "rename"} :
               StopRecording(outcome)
          \/ \E newPath \in {<<>>, <<"saved.mp4">>},
               outcome \in {"rename", "fopen_src", "fopen_dst", "fwrite", "copied"} :
               MoveFile(newPath, outcome)]_vars

InitManager ==
  sys = "manager" /\ HoleInit({SC}) /\ TraceIdle /\ KernelIdle /\ PoolInit(1, 1) /\ SkyIdle

\* Calls of one ResolutionManager in any order; setResolution with the least
\* and greatest int, the indices beside both ends of the range, and indices
\* within it.
SpecManager ==
  InitManager
    /\ [][\/ ManagerNext
          \/ ManagerPrevious
          \/ \E index \in {-2147483647 - 1, -1, 0, 3, 11, 12, 13, 2147483647} :
               ManagerSetResolution(index)]_vars

\* Any cell of the examined rows, its hash and colour not yet computed.
InitStars ==
  /\ sys = "stars"
  /\ HoleInit({SC}) /\ TraceIdle /\ KernelIdle /\ PoolInit(1, 1)
  /\ skyCalls = 0
  /\ skyDir = Zero3
  /\ skyColor = Zero3
  /\ skySeen = {}
  /\ skyRepeat = FALSE
  /\ cell \in (0 .. HashCells) \X CellRows
  /\ cellHash = <<0, 0>>
  /\ cellColor = Zero3
  /\ cellDone = FALSE

\* The hash and the colour of every cell of the examined rows.
SpecStars == InitStars /\ [][StarSample]_vars

InitKernel ==
  sys = "kernel" /\ HoleInit(KernelMasses) /\ TraceIdle /\ KernelIdle /\ PoolInit(1, 1) /\ SkyIdle

NextKernel ==
  \/ KernelDensity
  \/ KernelDoppler

\* One application of diskDensity or dopplerFactor per behaviour.
SpecKernel == InitKernel /\ [][NextKernel]_vars

InitPool ==
  /\ sys = "pool"
  /\ HoleInit(Masses)
  /\ TraceIdle
  /\ KernelIdle
  /\ SkyIdle
  /\ \E size \in ImageSizes : PoolInit(size[1], size[2])

NextPool ==
  \/ Render
  \/ Enqueue
  \/ EnqueueNotify
  \/ WaitFinishedLock
  \/ WaitFinishedCheck
  \/ WaitFinishedBlock
  \/ SpuriousWake
  \/ \E w \in Workers : WorkerBlock(w)
  \/ \E w \in Workers : WorkerExit(w)
  \/ \E w \in Workers : WorkerPop(w)
  \/ \E w \in Workers : WorkerRow(w)
  \/ \E w \in Workers : WorkerDone(w)
  \/ \E w \in Workers : WorkerNotify(w)
  \/ Destroy
  \/ DestroyNotify
  \/ DestroyJoin

\* A Renderer with its pool: render calls, then the destructor.
SpecPool == InitPool /\ [][NextPool]_vars

\* Pools of the images one pixel wide.
InitPoolDirect == InitPool /\ width = 1

\* A ThreadPool whose client may also destroy it between enqueue calls,
\* without waitFinished.
SpecPoolDirect == InitPoolDirect /\ [][NextPool \/ DestroyQueued]_vars

\* The same with every thread scheduled: the thread inside render or the
\* destructor keeps taking the steps of its code, and so does each worker.
\* Nothing obliges a condition variable to wake spuriously, the application to
\* call render again or to destroy the pool.
SpecPoolLive ==
  /\ SpecPool
  /\ WF_vars(Enqueue \/ EnqueueNotify \/ WaitFinishedLock \/ WaitFinishedCheck
                \/ WaitFinishedBlock \/ DestroyNotify \/ DestroyJoin)
  /\ \A w \in Workers :
       WF_vars(WorkerBlock(w) \/ WorkerExit(w) \/ WorkerPop(w) \/ WorkerRow(w)
                 \/ WorkerDone(w) \/ WorkerNotify(w))

InitSky ==
  sys = "sky" /\ HoleInit(KernelMasses) /\ TraceIdle /\ KernelIdle /\ PoolInit(1, 1) /\ SkyIdle

\* A sequence of sampleBackground calls on black holes of several masses.
SpecSky == InitSky /\ [][SkyCall]_vars

\* ------------------------------------------------------------------------
\* Properties of BlackHole::trace
\* ------------------------------------------------------------------------

\* The call of trace has returned.
Returned == tpc \in {"absorbed", "escaped"}

Black == [r |-> 0, g |-> 0, b |-> 0]

\* C1 (as stated): a ray whose origin lies strictly inside the horizon returns
\* the zero colour and never adds the background term, for any stepSize and
\* maxDist.
C1_InsideGetsNoBackground ==
  (sys = "trace" /\ Returned /\ InsideHorizon(origin))
    => (~bgAdded /\ accumulatedColor = Zero3)

\* The iteration bound of trace: no iteration starts once the distance has
\* reached maxDist, and every iteration but an absorbing one advances the ray
\* by at least MinStep.
C2_IterationBound ==
  /\ (maxDist <= 0 => iterations = 0)
  /\ (iterations >= 1 => (iterations - 1) * MinStep < maxDist)
  /\ totalDist >= (iterations - (IF tpc = "absorbed" THEN 1 ELSE 0)) * MinStep

C3_Monotone == sys = "trace" => transmittance <= tBefore

\* The reference scenario of C6 is the current call.
IsReference ==
  /\ sys = "trace"
  /\ tpc # "idle"
  /\ rs = 2 * SC
  /\ origin = ReferenceCall.ray.origin
  /\ direction = ReferenceCall.ray.direction
  /\ stepSize = ReferenceCall.ss
  /\ maxDist = ReferenceCall.md

\* C6: the reference ray (origin (0,3,-20) aimed at the centre, stepSize 0.1,
\* maxDist 100) meets no disk density, keeps transmittance 1, and returns at
\* its first sample inside the horizon: no background is added, the colour is
\* zero and the pixel tracePixel makes of it is black.
C6_ReferenceAbsorbed ==
  IsReference =>
    /\ ~diskHit
    /\ transmittance = SC
    /\ ~bgAdded
    /\ accumulatedColor = Zero3
    /\ Returned =>
         /\ tpc = "absorbed"
         /\ Length(pos) < rs
         /\ Length(pos) >= rs - MaxStep
         /\ TracePixel(accumulatedColor) = Black

\* C6 witness: the reference call has returned.
C6_Witness == IsReference /\ Returned /\ iterations > 1

\* C6 (as stated): the reference call yields non-zero red, green and blue
\* channels after tone mapping and gamma correction.
C6_NotBlack ==
  (IsReference /\ Returned) =>
    /\ TracePixel(accumulatedColor).r > 0
    /\ TracePixel(accumulatedColor).g > 0
    /\ TracePixel(accumulatedColor).b > 0

\* The current call's ray starts outside the horizon and points radially
\* outward: its direction is the unit vector of its origin.
IsRadialOutward ==
  /\ sys = "trace"
  /\ tpc # "idle"
  /\ ~InsideHorizon(origin)
  /\ direction = Normalized(origin)
  /\ LengthSquared(direction) = SC

OutsideDisk ==
  \/ Length(kpos) < MulFx(rs, (5 * SC) \div 2)
  \/ Length(kpos) > MulFx(rs, 12 * SC)
  \/ Abs(kpos.y) > SC \div 5

\* C4: diskDensity returns exactly 0 for every position with r < 2.5 rs,
\* r > 12 rs or |y| > 0.2.
C4_ZeroOutsideDisk ==
  (sys = "kernel" /\ kop = "density" /\ OutsideDisk) => kdensity = 0

\* C4 witness: a position within the radial band, just above the slab, where
\* the pattern is not zero.
C4_Witness ==
  /\ sys = "kernel"
  /\ kop = "density"
  /\ Abs(kpos.y) = SC \div 5 + 1
  /\ Length(kpos) > MulFx(rs, 3 * SC)
  /\ Length(kpos) < MulFx(rs, 10 * SC)
  /\ knoise > 0
  /\ kdensity = 0

\* C5 (as stated): diskDensity returns a value in [0, 1] for every position,
\* and its noise term (spiral + rings) * 0.5 + 0.5 lies in [0, 1].
C5_DensityRange ==
  (sys = "kernel" /\ kop = "density") =>
    /\ 0 <= kdensity /\ kdensity <= SC
    /\ 0 <= knoise /\ knoise <= SC

\* The orbital speed and the velocity component toward the observer at the
\* inputs dopplerFactor was applied to.
KBeta == OrbitalSpeed(kpos, rs)

KBetaParallel == BetaParallel(kpos, kdir, rs)

\* The component above which the factor exceeds 1: 1 - sqrt(1 - beta^2).
KThreshold == SC - SqrtFx(SC - MulFx(KBeta, KBeta))

\* dopplerFactor was applied to a position in the disk.
DopplerApplied == sys = "kernel" /\ kop = "doppler" /\ InDisk(kpos, rs)

\* C8: at a disk position, dopplerFactor is below 1 when the velocity
\* component toward the observer is negative, and also when it is positive
\* but below 1 - sqrt(1 - beta^2); it is above 1 when the component is above
\* that threshold (compared here with a margin of two units of rounding).
C8_DopplerSides ==
  DopplerApplied =>
    /\ KBetaParallel < 0 => kdelta < SC
    /\ KBetaParallel < KThreshold - 2 => kdelta < SC
    /\ KBetaParallel > KThreshold + 2 => kdelta > SC
    /\ kdelta > SC => KBetaParallel > 0

\* C8 witness: the component toward the observer is positive and the factor is
\* below 1.
C8_Witness == DopplerApplied /\ KBetaParallel > 0 /\ kdelta < SC

\* C8 (as stated): component > 0 gives a factor > 1, component < 0 a factor < 1.
C8_SignDecides ==
  DopplerApplied =>
    /\ KBetaParallel > 0 => kdelta > SC
    /\ KBetaParallel < 0 => kdelta < SC

\* ------------------------------------------------------------------------
\* Properties of ThreadPool and Renderer::render
\* ------------------------------------------------------------------------

\* The chunks render cuts the image into: first rows 0, 8, 16, ... below height.
Chunks == {t \in ChunkStarts : t < height}

\* The chunk that row r belongs to.
ChunkOf(r) == (r \div RowsPerChunk) * RowsPerChunk

\* C9: when waitFinished (and so render) has returned, the queue is empty, no
\* worker is running a task, and every chunk of the call was enqueued and has
\* finished executing.
C9_Barrier ==
  (sys = "pool" /\ mpc = "returned") =>
    /\ tasks = <<>>
    /\ activeTasks = 0
    /\ \A w \in Workers : wpc[w] # "run"
    /\ enqueued = Chunks
    /\ \A t \in Chunks : finished[t] >= 1

\* C9 witness: render returned from a call with several chunks while a worker
\* had decremented activeTasks but not yet notified.
C9_Witness ==
  /\ sys = "pool"
  /\ mpc = "returned"
  /\ Cardinality(enqueued) >= 2
  /\ \E w \in Workers : wpc[w] = "notify"

\* C10: no write of a render call falls outside the buffer or on an index
\* already written in that call; every written index y*width+x was written by
\* the chunk of row y; the enqueued tasks are chunks of the image; and when
\* render returns every index of the buffer has been written, each chunk
\* having run once.
C10_DisjointSlots ==
  sys = "pool" =>
    /\ ~badWrite
    /\ \A i \in DOMAIN pixels : pixels[i] # NoTask => pixels[i] = ChunkOf(i \div width)
    /\ enqueued \subseteq Chunks
    /\ \A t \in ChunkStarts : finished[t] <= 1
    /\ mpc = "returned" =>
         /\ \A i \in DOMAIN pixels : pixels[i] # NoTask
         /\ \A t \in Chunks : finished[t] = 1

\* C10 witness: render returned for an image whose last chunk is truncated,
\* with every index written.
C10_Witness ==
  /\ sys = "pool"
  /\ mpc = "returned"
  /\ width > 1
  /\ height > RowsPerChunk
  /\ height % RowsPerChunk # 0
  /\ \A i \in DOMAIN pixels : pixels[i] # NoTask
  /\ pixels[width * height - 1] = ChunkOf(height - 1)

\* ------------------------------------------------------------------------
\* Properties of sampleBackground
\* ------------------------------------------------------------------------

C13_TransmittanceNonNegative ==
  sys = "trace" => (transmittance >= 0 /\ tBefore >= 0)

\* C13 witness: a disk sample has changed the transmittance and the call has
\* returned.
C13_Witness ==
  /\ sys = "trace"
  /\ tpc \in {"absorbed", "escaped"}
  /\ diskHit
  /\ transmittance # SC
  /\ stepSize > 0

\* ------------------------------------------------------------------------
\* Degenerate vectors
\* ------------------------------------------------------------------------

\* direction is the constructor's argument divided by its length len: each
\* component times len gives the argument back, up to the rounding of the
\* division and of the product.
IsQuotient(d, arg, len) ==
  /\ Abs(MulFx(d.x, len) - arg.x) <= 1 + len \div SC
  /\ Abs(MulFx(d.y, len) - arg.y) <= 1 + len \div SC
  /\ Abs(MulFx(d.z, len) - arg.z) <= 1 + len \div SC

\* C14: normalized gives the zero vector for a vector of length zero and the
\* vector divided by its length otherwise, so a Ray built with a zero-length
\* direction holds the zero direction; trace on such a ray terminates and
\* returns a colour.
C14_DegenerateVectors ==
  /\ [](kop = "ray" =>
          IF Length(kpos) = 0
            THEN direction = Zero3
            ELSE IsQuotient(direction, kpos, Length(kpos)))
  /\ [](kop = "ray" /\ tpc # "idle" /\ direction = Zero3
          => vel = Zero3 /\ (tpc = "loop" => pos = origin))
  /\ (kop = "ray" /\ direction = Zero3 /\ tpc = "loop")
       ~> (tpc \in {"absorbed", "escaped"})

\* C14 witness: trace on a ray with zero direction has marched its whole
\* distance outside the horizon and returned with the background colour.
C14_Witness ==
  /\ kop = "ray"
  /\ Length(kpos) = 0
  /\ direction = Zero3
  /\ tpc = "escaped"
  /\ iterations > 2
  /\ bgAdded

\* ------------------------------------------------------------------------
\* Liveness of the completion barrier
\* ------------------------------------------------------------------------

\* C15 (as stated): with at least one worker and every task terminating, a
\* thread that has entered waitFinished eventually returns from it, under
\* every interleaving of the workers' "activeTasks--; notify_one()" with the
\* waiter's predicate check and wait.
C15_WaitFinishedReturns ==
  (sys = "pool" /\ mpc = "check") ~> (mpc = "returned")

\* ------------------------------------------------------------------------
\* Step lengths of trace
\* ------------------------------------------------------------------------

\* C16 (as stated): in every iteration that samples the disk (density above
\* 0.001) the transmittance is multiplied by exp(-absorption * dt) with dt the
\* step length by which that iteration increments the travelled distance.
C16_BeerUsesMarchStep ==
  [][(sys = "trace" /\ tpc = "loop" /\ tpc' = "loop"
        /\ DiskDensity(pos, rs) > DensityThreshold)
       => transmittance' =
            MulFx(transmittance,
                  ExpFx(-MulFx(MulFx(DiskDensity(pos, rs), SC \div 2),
                               totalDist' - totalDist)))]_vars

\* C17 (as stated): whenever the ray's position at the moment trace returns
\* lies inside the horizon, the returned colour holds no background
\* contribution, also when the step that crosses the horizon is the step on
\* which the distance reaches maxDist.
C17_AbsorbedGetsNoBackground ==
  (sys = "trace" /\ tpc \in {"absorbed", "escaped"} /\ InsideHorizon(pos)) => ~bgAdded

\* The case C17 names: a ray that started outside the horizon, crossed it on
\* its last step and returned with the background added.
C17_CrossingStep ==
  ~(/\ sys = "trace"
    /\ tpc = "escaped"
    /\ ~InsideHorizon(origin)
    /\ InsideHorizon(pos)
    /\ iterations > 0
    /\ accumulatedColor # Zero3)

\* C18: in every loop iteration of trace that advances the ray, whatever the
\* position and the stepSize (negative, zero, large), the step dt added to the
\* travelled distance satisfies 0.02 <= dt <= 0.5.
C18_StepClamped ==
  [][(sys = "trace" /\ tpc = "loop" /\ tpc' = "loop")
       => /\ totalDist' - totalDist >= MinStep
          /\ totalDist' - totalDist <= MaxStep]_vars

\* C18 witness: a call with a negative stepSize has marched to maxDist in
\* steps of exactly 0.02, every one of them clamped from below.
C18_Witness ==
  /\ sys = "trace"
  /\ tpc = "escaped"
  /\ stepSize < 0
  /\ iterations > 1
  /\ totalDist = iterations * MinStep

\* ------------------------------------------------------------------------
\* Every task runs exactly once
\* ------------------------------------------------------------------------

\* Where task t is: the number of its copies in the queue, of workers running
\* it, and of its completed executions.
Copies(t) ==
  Cardinality({i \in DOMAIN tasks : tasks[i] = t})
    + Cardinality({w \in Workers : wpc[w] = "run" /\ wtask[w] = t})
    + finished[t]

\* C19: every enqueued task is in exactly one place at any time (in the queue,
\* with one worker, or finished once), so it is never lost and never run
\* twice; activeTasks is the number of tasks popped and not yet finished; a
\* worker exits only on an empty queue, and when the destructor's joins are
\* done every task that was enqueued, queued at destruction or not, has run.
C19_ExactlyOnce ==
  sys = "pool" =>
    /\ \A t \in ChunkStarts : Copies(t) = IF t \in enqueued THEN 1 ELSE 0
    /\ activeTasks = Cardinality({w \in Workers : wpc[w] = "run"})
    /\ \A w \in Workers : wpc[w] = "exited" => (stop /\ tasks = <<>>)
    /\ mpc = "destroyed" =>
         /\ tasks = <<>>
         /\ activeTasks = 0
         /\ \A w \in Workers : wpc[w] = "exited"
         /\ \A t \in enqueued : finished[t] = 1

\* C19 witness: the pool was destroyed with tasks in its queue, and the joins
\* have completed.
C19_Witness ==
  /\ sys = "pool"
  /\ mpc = "destroyed"
  /\ queuedAtStop >= 2
  /\ \A t \in enqueued : finished[t] = 1

\* ------------------------------------------------------------------------
\* Keys while recording
\* ------------------------------------------------------------------------

\* C20: a key-down of Escape, Q, Enter or keypad Enter that arrives while
\* isRecording is true stops the recording and leaves running and
\* isFullscreen as they were; a key-down of Escape or Q sets running to false
\* only when no recording is in progress.
C20_StopKeysWhileRecording ==
  /\ []((sys = "app" /\ wasRecording
           /\ esym \in {"SDLK_ESCAPE", "SDLK_q", "SDLK_RETURN", "SDLK_KP_ENTER"})
          => ~isRecording)
  /\ [][(sys = "app" /\ isRecording
           /\ esym' \in {"SDLK_ESCAPE", "SDLK_q", "SDLK_RETURN", "SDLK_KP_ENTER"})
          => (~isRecording' /\ running' = running /\ isFullscreen' = isFullscreen)]_vars
  /\ [][(sys = "app" /\ running /\ ~running' /\ esym' \in {"SDLK_ESCAPE", "SDLK_q"})
          => ~isRecording]_vars

\* C20 witness: Escape arrived in fullscreen while a recording was running;
\* the recording has stopped, the application runs on, still in fullscreen.
C20_Witness ==
  /\ sys = "app"
  /\ esym = "SDLK_ESCAPE"
  /\ wasRecording
  /\ ~isRecording
  /\ running
  /\ isFullscreen

\* ------------------------------------------------------------------------
\* Render resolution and recording
\* ------------------------------------------------------------------------

\* C21: while isRecording is true no handled event changes the resolution
\* manager's index, renderWidth, renderHeight or the size of the render
\* targets, so during a recording and at the event that ends it the render
\* resolution is the one the recording began with.
C21_ResolutionFrozenWhileRecording ==
  /\ [][(sys = "app" /\ isRecording)
          => UNCHANGED <<currentIndex, renderWidth, renderHeight, textureSize>>]_vars
  /\ []((sys = "app" /\ (isRecording \/ wasRecording))
          => (<<renderWidth, renderHeight>> = startSize /\ textureSize = startSize))

\* C21 witness: the resolution was lowered to 720p, a recording began, and
\* '=' without Shift arrived during the recording; the resolution is still 720p.
C21_Witness ==
  /\ sys = "app"
  /\ wasRecording
  /\ isRecording
  /\ esym = "SDLK_EQUALS"
  /\ ~eshift
  /\ currentIndex = 4
  /\ <<renderWidth, renderHeight>> = <<1280, 720>>
  /\ startSize = <<1280, 720>>

\* C22: after every handled event Application::isRecording equals the
\* recorder's recording flag; isRecording becomes true only in an event in
\* which VideoRecorder::startRecording was called and returned true; and
\* Command+R while recording calls no recorder function and changes neither
\* flag nor the recorder.
C22_RecordingFlagsAgree ==
  /\ [](sys = "app" => isRecording = videoRecorder.recording)
  /\ [][(sys = "app" /\ ~isRecording /\ isRecording')
          => (rop' = "startRecording" /\ rret')]_vars
  /\ [][(sys = "app" /\ isRecording /\ esym' = "SDLK_r" /\ ecmd')
          => (rop' = "none" /\ UNCHANGED <<isRecording, videoRecorder, files>>)]_vars

\* C22 witness: Command+R arrived during a recording; both flags are still
\* true and no recorder function was called.
C22_Witness ==
  /\ sys = "app"
  /\ esym = "SDLK_r"
  /\ ecmd
  /\ wasRecording
  /\ isRecording
  /\ videoRecorder.recording
  /\ rop = "none"

\* ------------------------------------------------------------------------
\* VideoRecorder state
\* ------------------------------------------------------------------------

\* C23: after any sequence of recorder calls, the encoder able to fail at any
\* of its steps, recording is true exactly when the encoder context is
\* non-null; a startRecording whose encoder failed returned false and left
\* recording false and the context released; stopRecording when not
\* recording changed nothing; addFrame when not recording or with another
\* frame size returned false and encoded nothing.
C23_RecorderStateConsistent ==
  sys = "recorder" =>
    /\ videoRecorder.recording <=> videoRecorder.ffmpegContext # "nullptr"
    /\ (rop = "startRecording" /\ ~rprev.recording /\ rargs[6] # 0)
         => (~rret /\ ~videoRecorder.recording /\ videoRecorder.ffmpegContext = "nullptr")
    /\ (rop = "stopRecording" /\ ~rprev.recording)
         => (videoRecorder = rprev /\ files = fprev)
    /\ (rop = "addFrame"
          /\ (~rprev.recording \/ rargs[1] # rprev.frameWidth
                \/ rargs[2] # rprev.frameHeight))
         => (~rret /\ videoRecorder = rprev)

\* C23 witness: after an earlier recording was started and stopped, a start
\* failed at the last step of the encoder; recording is false and the
\* context is null.
C23_Witness ==
  /\ sys = "recorder"
  /\ rop = "startRecording"
  /\ rargs[6] = 327
  /\ ~rret
  /\ rcalls >= 3
  /\ videoRecorder.filename \in fprev
  /\ ~videoRecorder.recording
  /\ videoRecorder.ffmpegContext = "nullptr"

\* C24: a startRecording call made while a recording is in progress returns
\* false and leaves the file name, the audio path, the frame width and
\* height, the frame rate, the encoder context, the recording flag and the
\* files as they were.
C24_StartWhileRecordingRejected ==
  (sys = "recorder" /\ rop = "startRecording" /\ rprev.recording)
    => (~rret /\ videoRecorder = rprev /\ files = fprev)

\* C24 witness: a start with another file name, audio path, frame size and
\* frame rate was called during a recording and changed nothing.
C24_Witness ==
  /\ sys = "recorder"
  /\ rop = "startRecording"
  /\ rprev.recording
  /\ rargs[1] # rprev.filename
  /\ rargs[2] # rprev.frameWidth
  /\ rargs[3] # rprev.frameHeight
  /\ rargs[4] # rprev.frameRate
  /\ rargs[5] # rprev.audioFilePath
  /\ rargs[6] = 0
  /\ videoRecorder = rprev
  /\ videoRecorder.recording

\* C25: when stopRecording ran on a recording with an audio file whose video
\* file existed, and muxAudioWithVideo failed, a file still exists at
\* getFilename().
C25_FailedMuxKeepsVideo ==
  (sys = "recorder" /\ rop = "stopRecording" /\ rprev.recording
     /\ rprev.audioFilePath # <<>> /\ rprev.filename \in fprev /\ muxResult = "failed")
    => videoRecorder.filename \in files

\* ------------------------------------------------------------------------
\* ResolutionManager
\* ------------------------------------------------------------------------

\* C26: after any sequence of resolution changes from the default 1080p,
\* renderWidth and renderHeight are strictly positive, and so is the size
\* the render targets were created with.
C26_RenderSizePositive ==
  sys = "app" =>
    /\ renderWidth > 0
    /\ renderHeight > 0
    /\ textureSize[1] > 0
    /\ textureSize[2] > 0

\* C27: after any sequence of next(), previous() and setResolution(i) calls
\* currentIndex is in [0, NUM_PRESETS); a setResolution with an index outside
\* that range left it unchanged; next() then previous(), and previous() then
\* next(), restored it; and NUM_PRESETS next() calls in a row returned it to
\* where they began.
C27_IndexInRange ==
  sys = "manager" =>
    /\ currentIndex \in 0 .. (NUM_PRESETS - 1)
    /\ (mop = "setResolution" /\ (marg < 0 \/ marg >= NUM_PRESETS)) => currentIndex = mprev
    /\ (mop2 = "next" /\ mop = "previous") => currentIndex = mprev2
    /\ (mop2 = "previous" /\ mop = "next") => currentIndex = mprev2
    /\ nextRun = NUM_PRESETS => currentIndex = runStart

\* C27 witness: setResolution(12), just past the range, was called at the
\* last preset and left the index there.
C27_Witness ==
  /\ sys = "manager"
  /\ mop = "setResolution"
  /\ marg = NUM_PRESETS
  /\ mprev = NUM_PRESETS - 1
  /\ currentIndex = NUM_PRESETS - 1

\* NUM_PRESETS next() calls in a row that began at the last preset and passed
\* the wrap-around.
C27_FullCycle ==
  /\ sys = "manager"
  /\ nextRun = NUM_PRESETS
  /\ runStart = NUM_PRESETS - 1
  /\ currentIndex = runStart

\* ------------------------------------------------------------------------
\* Star brightness
\* ------------------------------------------------------------------------

\* C28: with the 32-bit wrapping hash a cell shows a star exactly when
\* hash % 1000 < 2, and then hash % 100 is 0 or 1 and the colour is grey of
\* brightness 0.5 or 0.505; every other cell is pure black.
C28_StarBrightness ==
  (sys = "stars" /\ cellDone) =>
    /\ cellColor # Zero3 <=> HashMod(cellHash, 1000) < 2
    /\ HashMod(cellHash, 1000) < 2 =>
         /\ HashMod(cellHash, 100) = HashMod(cellHash, 1000)
         /\ cellColor \in {Vector3(SC \div 2, SC \div 2, SC \div 2),
                           Vector3(SC \div 2 + SC \div 200, SC \div 2 + SC \div 200,
                                   SC \div 2 + SC \div 200)}
    /\ HashMod(cellHash, 1000) >= 2 => cellColor = Zero3

\* C28 witness: a cell whose hash is 1 modulo 1000, a star of brightness 0.505.
C28_Witness ==
  /\ sys = "stars"
  /\ cellDone
  /\ HashMod(cellHash, 1000) = 1
  /\ cellColor = Vector3(505, 505, 505)

\* A cell whose hash is 0 modulo 1000, a star of brightness 0.5.
C28_DimStar ==
  /\ sys = "stars"
  /\ cellDone
  /\ HashMod(cellHash, 1000) = 0
  /\ cellColor = Vector3(500, 500, 500)

=============================================================================
